---------------------------- MODULE Spec2Model ----------------------------
(***************************************************************************)
(* Link validation engine of alocubano.boulderfest.                        *)
(*                                                                         *)
(* Two implementations are modelled side by side:                          *)
(*   - the test framework (tests/unit/link-validation/                     *)
(*     test_link_validation.py): LinkExtractorParser, LinkValidator,       *)
(*     TestRunner, main, and the run_link_tests wrappers;                  *)
(*   - the tools validator (tools/link-validation/link_validator.py):      *)
(*     LinkValidator and its report.                                       *)
(*                                                                         *)
(* URLs and paths are TLA+ strings; the string functions of Python that    *)
(* the code uses (startswith, endswith, lower, strip, lstrip, split,       *)
(* replace, urllib.parse.urlparse, re.match on the code's patterns) are    *)
(* operators that compute character by character.                          *)
(***************************************************************************)
EXTENDS Integers, Sequences, FiniteSets, TLC

VARIABLES
    fs,      \* the files that exist below the project root (relative paths)
    call,    \* the last single-link call and what it returned
    docs,    \* the HTML documents of the site, in discovery order
    tf,      \* TestRunner / main / wrapper state of the test framework
    tv,      \* LinkValidator report state of the tools validator
    parse,   \* an HTML parser reading a document, and what is made of it
    server   \* the development server: its clock and its RateLimiter

vars == <<fs, call, docs, tf, tv, parse, server>>

\* Python's None.
None == "<None>"

(***************************************************************************)
(* Python string functions.                                                *)
(***************************************************************************)
Min(S) == CHOOSE x \in S : \A y \in S : x <= y

Chars(s) == {SubSeq(s, i, i) : i \in 1..Len(s)}

\* s[i:] with i counted from 1.
From(s, i) == IF i > Len(s) THEN "" ELSE SubSeq(s, i, Len(s))

\* s[:n]
Take(s, n) == IF n >= Len(s) THEN s ELSE SubSeq(s, 1, n)

StartsWith(s, p) == Len(s) >= Len(p) /\ SubSeq(s, 1, Len(p)) = p

EndsWith(s, p) == Len(s) >= Len(p) /\ SubSeq(s, Len(s) - Len(p) + 1, Len(s)) = p

\* 1-based index of the first occurrence of p in s, 0 when there is none.
Find(s, p) ==
    LET I == {i \in 1..(Len(s) - Len(p) + 1) : SubSeq(s, i, i + Len(p) - 1) = p}
    IN  IF I = {} THEN 0 ELSE Min(I)

Contains(s, p) == Find(s, p) # 0

UpperAlpha == "ABCDEFGHIJKLMNOPQRSTUVWXYZ"
LowerAlpha == "abcdefghijklmnopqrstuvwxyz"
Digits == "0123456789"

\* the lower-case letter of every upper-case letter
LowerOf ==
    [c \in Chars(UpperAlpha) |->
        LET i == Find(UpperAlpha, c) IN SubSeq(LowerAlpha, i, i)]

LowerChar(c) == IF c \in DOMAIN LowerOf THEN LowerOf[c] ELSE c

RECURSIVE Lower(_)
Lower(s) ==
    IF s = "" THEN "" ELSE LowerChar(SubSeq(s, 1, 1)) \o Lower(From(s, 2))

\* str.lstrip(chars) and str.rstrip(chars), chars given as a set.
RECURSIVE LStrip(_, _)
LStrip(s, cs) ==
    IF s # "" /\ SubSeq(s, 1, 1) \in cs THEN LStrip(From(s, 2), cs) ELSE s

RECURSIVE RStrip(_, _)
RStrip(s, cs) ==
    IF s # "" /\ SubSeq(s, Len(s), Len(s)) \in cs
    THEN RStrip(Take(s, Len(s) - 1), cs) ELSE s

Whitespace == {" ", "\t", "\n", "\r", "\f"}

\* str.strip()
Strip(s) == RStrip(LStrip(s, Whitespace), Whitespace)

\* str.split(sep)[0]
BeforeFirst(s, sep) ==
    LET i == Find(s, sep) IN IF i = 0 THEN s ELSE Take(s, i - 1)

\* str.split(sep, 1)[1] when sep occurs
AfterFirst(s, sep) ==
    LET i == Find(s, sep) IN IF i = 0 THEN "" ELSE From(s, i + Len(sep))

\* str.replace(old, new)
RECURSIVE Replace(_, _, _)
Replace(s, old, new) ==
    LET i == Find(s, old)
    IN  IF i = 0 THEN s
        ELSE Take(s, i - 1) \o new \o Replace(From(s, i + Len(old)), old, new)

\* every character of s is in cs
AllIn(s, cs) == \A i \in 1..Len(s) : SubSeq(s, i, i) \in cs

\* the number of leading characters of s that are in cs
RECURSIVE Span(_, _)
Span(s, cs) ==
    IF s # "" /\ SubSeq(s, 1, 1) \in cs THEN 1 + Span(From(s, 2), cs) ELSE 0

RECURSIVE Repeat(_, _)
Repeat(c, n) == IF n <= 0 THEN "" ELSE c \o Repeat(c, n - 1)

Letters == Chars(UpperAlpha) \cup Chars(LowerAlpha)
DigitChars == Chars(Digits)
\* \w of the re module, on ASCII text
WordChars == Letters \cup DigitChars \cup {"_"}

(***************************************************************************)
(* urllib.parse.urlparse.  The result is a record; raised = TRUE stands    *)
(* for the ValueError("Invalid IPv6 URL") that urlsplit raises for a       *)
(* network location with an unbalanced bracket.                            *)
(***************************************************************************)
SchemeChars == Letters \cup DigitChars \cup {"+", "-", "."}

\* _splitnetloc(url, 2): the first of / ? # at or after position 3
NetlocEnd(url) ==
    LET I == {i \in 3..Len(url) : SubSeq(url, i, i) \in {"/", "?", "#"}}
    IN  IF I = {} THEN Len(url) + 1 ELSE Min(I)

UrlParse(url0) ==
    LET \* the fragment, then the query, are cut off what follows the netloc
        Parts(scheme, netloc, url2, url3) ==
            [raised   |-> \/ (Contains(netloc, "[") /\ ~Contains(netloc, "]"))
                          \/ (Contains(netloc, "]") /\ ~Contains(netloc, "[")),
             scheme   |-> scheme,
             netloc   |-> netloc,
             path     |-> BeforeFirst(url3, "?"),
             query    |-> AfterFirst(url3, "?"),
             fragment |-> AfterFirst(url2, "#")]
        \* url1 is what follows the scheme, e the end of its netloc
        Net(scheme, url1, e) ==
            IF Take(url1, 2) = "//"
            THEN Parts(scheme, SubSeq(url1, 3, e - 1), From(url1, e),
                       BeforeFirst(From(url1, e), "#"))
            ELSE Parts(scheme, "", url1, BeforeFirst(url1, "#"))
        \* i is the position of the first colon
        Sch(i) ==
            IF /\ i > 1
               /\ SubSeq(url0, 1, 1) \in Letters
               /\ AllIn(Take(url0, i - 1), SchemeChars)
            THEN Net(Lower(Take(url0, i - 1)), From(url0, i + 1),
                     NetlocEnd(From(url0, i + 1)))
            ELSE Net("", url0, NetlocEnd(url0))
    IN  Sch(Find(url0, ":"))


(***************************************************************************)
(* Test framework: LinkType and LinkExtractorParser._classify_link.        *)
(***************************************************************************)
INTERNAL_PAGE   == "internal_page"
INTERNAL_FILE   == "internal_file"
INTERNAL_IMAGE  == "internal_image"
EXTERNAL_HTTP   == "external_http"
EXTERNAL_MAILTO == "external_mailto"
FRAGMENT        == "fragment"
JAVASCRIPT      == "javascript"
API_ENDPOINT    == "api_endpoint"
SPECIAL_ROUTE   == "special_route"

LinkType ==
    {INTERNAL_PAGE, INTERNAL_FILE, INTERNAL_IMAGE, EXTERNAL_HTTP,
     EXTERNAL_MAILTO, FRAGMENT, JAVASCRIPT, API_ENDPOINT, SPECIAL_ROUTE}

\* What a call yields when an exception leaves it instead of a value.
ValueError == "ValueError"

FileExtensions  == {".css", ".js", ".json"}
ImageExtensions == {".png", ".jpg", ".jpeg", ".gif", ".svg", ".ico", ".webp"}

_classify_link(url0) ==
    LET ByPath(url, parsed_url, base_path) ==
            IF parsed_url.raised THEN ValueError
            ELSE IF \E ext \in FileExtensions : EndsWith(base_path, ext)
                 THEN INTERNAL_FILE
            ELSE IF \E ext \in ImageExtensions : EndsWith(base_path, ext)
                 THEN INTERNAL_IMAGE
            ELSE IF url = "/" \/ StartsWith(url, "/gallery-data/")
                 THEN SPECIAL_ROUTE
            ELSE INTERNAL_PAGE
        Parsed(url, parsed_url) == ByPath(url, parsed_url, Lower(parsed_url.path))
        Classify(url) ==
            IF StartsWith(url, "javascript:") THEN JAVASCRIPT
            ELSE IF StartsWith(url, "#") THEN FRAGMENT
            ELSE IF \/ StartsWith(url, "http://")
                    \/ StartsWith(url, "https://")
                    \/ StartsWith(url, "//") THEN EXTERNAL_HTTP
            ELSE IF StartsWith(url, "mailto:") THEN EXTERNAL_MAILTO
            ELSE IF StartsWith(url, "/api/") THEN API_ENDPOINT
            ELSE Parsed(url, UrlParse(url))
    IN  Classify(Strip(Lower(url0)))

(***************************************************************************)
(* The filesystem below the project root.  files is the set of relative    *)
(* paths of the regular files; a directory exists when a file lies below   *)
(* it.  pathlib drops empty and "." segments and a trailing slash when it  *)
(* joins, which NormPath does.                                             *)
(***************************************************************************)
RECURSIVE NormPath(_)
NormPath(p) ==
    IF p = "" THEN ""
    ELSE LET seg  == BeforeFirst(p, "/")
             rest == NormPath(AfterFirst(p, "/"))
         IN  IF seg = "" \/ seg = "." THEN rest
             ELSE IF rest = "" THEN seg
             ELSE seg \o "/" \o rest

IsDir(files, p) ==
    LET n == NormPath(p)
    IN  n = "" \/ \E f \in files : StartsWith(f, n \o "/")

\* Path.exists() of project_root / p
Exists(files, p) == NormPath(p) \in files \/ IsDir(files, p)

\* Path(p).name
RECURSIVE Basename(_)
Basename(p) ==
    LET n == NormPath(p)
    IN  IF Contains(n, "/") THEN Basename(AfterFirst(n, "/")) ELSE n

(***************************************************************************)
(* Test framework: LinkValidator.  A validator yields                      *)
(* [ok, err, raised]: its return value, the validation_error it stored in  *)
(* the LinkInfo (None when it stored none), and whether an exception left  *)
(* it.                                                                     *)
(***************************************************************************)
Ret(ok, err) == [ok |-> ok, err |-> err, raised |-> FALSE]
Raise == [ok |-> FALSE, err |-> None, raised |-> TRUE]

static_dirs == <<"css", "js", "images", "assets", "public">>

server_routes ==
    {<<"/", "/index.html">>,
     <<"/home", "/pages/home.html">>,
     <<"/about", "/pages/about.html">>,
     <<"/contact", "/pages/contact.html">>,
     <<"/tickets", "/pages/tickets.html">>,
     <<"/donations", "/pages/donations.html">>,
     <<"/boulder-fest-2025", "/pages/boulder-fest-2025-index.html">>,
     <<"/boulder-fest-2025/artists", "/pages/boulder-fest-2025-artists.html">>,
     <<"/boulder-fest-2025/schedule", "/pages/boulder-fest-2025-schedule.html">>,
     <<"/boulder-fest-2025/gallery", "/pages/boulder-fest-2025-gallery.html">>,
     <<"/boulder-fest-2026", "/pages/boulder-fest-2026-index.html">>,
     <<"/boulder-fest-2026/artists", "/pages/boulder-fest-2026-artists.html">>,
     <<"/boulder-fest-2026/schedule", "/pages/boulder-fest-2026-schedule.html">>,
     <<"/boulder-fest-2026/gallery", "/pages/boulder-fest-2026-gallery.html">>,
     <<"/weekender-2026-09", "/pages/weekender-2026-09-index.html">>,
     <<"/weekender-2026-09/artists", "/pages/weekender-2026-09-artists.html">>,
     <<"/weekender-2026-09/schedule", "/pages/weekender-2026-09-schedule.html">>,
     <<"/weekender-2026-09/gallery", "/pages/weekender-2026-09-gallery.html">>,
     <<"/2026-artists", "/pages/boulder-fest-2026-artists.html">>,
     <<"/2026-schedule", "/pages/boulder-fest-2026-schedule.html">>,
     <<"/2026-gallery", "/pages/boulder-fest-2026-gallery.html">>,
     <<"/2025-artists", "/pages/boulder-fest-2025-artists.html">>,
     <<"/2025-schedule", "/pages/boulder-fest-2025-schedule.html">>,
     <<"/2025-gallery", "/pages/boulder-fest-2025-gallery.html">>,
     <<"/2026-sept-artists", "/pages/weekender-2026-09-artists.html">>,
     <<"/2026-sept-schedule", "/pages/weekender-2026-09-schedule.html">>,
     <<"/2026-sept-gallery", "/pages/weekender-2026-09-gallery.html">>,
     <<"/gallery-2025", "/pages/boulder-fest-2025-gallery.html">>,
     <<"/weekender-2026-09-tickets", "/pages/tickets.html">>,
     <<"/artists", "/pages/boulder-fest-2026-artists.html">>,
     <<"/schedule", "/pages/boulder-fest-2026-schedule.html">>,
     <<"/gallery", "/pages/boulder-fest-2026-gallery.html">>}

InRoutes(url) == \E r \in server_routes : r[1] = url
RouteTarget(url) == (CHOOSE r \in server_routes : r[1] = url)[2]

api_endpoints ==
    {"/api/featured-photos", "/api/gallery", "/api/drive-folders",
     "/api/debug-gallery"}

\* _validate_internal_page with the early return of the routing branch lost:
\* a missing route target falls through to the direct file checks.
_validate_internal_page_falling_through(files, url) ==
    LET clean_url == LStrip(url, {"/"}) IN
    IF InRoutes(url) /\ Exists(files, LStrip(RouteTarget(url), {"/"}))
    THEN Ret(TRUE, None)
    ELSE IF Exists(files, clean_url \o ".html") THEN Ret(TRUE, None)
    ELSE IF Exists(files, "pages/" \o clean_url \o ".html") THEN Ret(TRUE, None)
    ELSE IF Exists(files, clean_url \o "/index.html") THEN Ret(TRUE, None)
    ELSE Ret(FALSE, "Internal page not found")

_validate_internal_page(files, url) ==
    IF InRoutes(url)
    THEN IF Exists(files, LStrip(RouteTarget(url), {"/"}))
         THEN Ret(TRUE, None)
         ELSE Ret(FALSE, "Route target file not found")
    ELSE LET clean_url == LStrip(url, {"/"}) IN
         IF Exists(files, clean_url \o ".html") THEN Ret(TRUE, None)
         ELSE IF Exists(files, "pages/" \o clean_url \o ".html") THEN Ret(TRUE, None)
         ELSE IF Exists(files, clean_url \o "/index.html") THEN Ret(TRUE, None)
         ELSE Ret(FALSE, "Internal page not found")

_validate_internal_file(files, url) ==
    LET Check(parsed_url, clean_path) ==
            IF parsed_url.raised THEN Raise
            ELSE IF Exists(files, clean_path) THEN Ret(TRUE, None)
            ELSE IF \E i \in 1..Len(static_dirs) :
                       /\ Exists(files, static_dirs[i])
                       /\ Exists(files, static_dirs[i] \o "/" \o Basename(clean_path))
                 THEN Ret(TRUE, None)
            ELSE Ret(FALSE, "Internal file not found")
        Parsed(parsed_url) == Check(parsed_url, LStrip(parsed_url.path, {"/"}))
    IN  Parsed(UrlParse(url))

_validate_internal_image(files, url) ==
    IF Exists(files, LStrip(url, {"/"})) THEN Ret(TRUE, None)
    ELSE Ret(FALSE, "Internal image not found")

\* [a-zA-Z0-9_-]
FileIdChars == Letters \cup DigitChars \cup {"_", "-"}
FileIdMin == 10
FileIdMax == 50

\* re.match(r'/api/image-proxy/([a-zA-Z0-9_-]{10,50})', base_path): the
\* pattern has no end anchor, so a prefix of base_path may match.
ImageProxyMatch(base_path) ==
    /\ StartsWith(base_path, "/api/image-proxy/")
    /\ Span(From(base_path, Len("/api/image-proxy/") + 1), FileIdChars) >= FileIdMin

_validate_api_endpoint(url) ==
    LET Check(parsed, base_path) ==
            IF parsed.raised THEN Raise
            ELSE IF base_path \in api_endpoints THEN Ret(TRUE, None)
            ELSE IF StartsWith(base_path, "/api/image-proxy/")
                 THEN IF ImageProxyMatch(base_path) THEN Ret(TRUE, None)
                      ELSE Ret(FALSE, "Invalid image proxy file ID format")
            ELSE Ret(FALSE, "Unknown API endpoint")
        Parsed(parsed) == Check(parsed, parsed.path)
    IN  Parsed(UrlParse(url))

_validate_special_route(files, url) ==
    IF url = "/" THEN Ret(Exists(files, "index.html"), None)
    ELSE IF StartsWith(url, "/gallery-data/") /\ EndsWith(url, ".json")
         THEN Ret(Exists(files, "public/" \o LStrip(url, {"/"})), None)
    ELSE IF url = "/featured-photos.json"
         THEN Ret(Exists(files, "public/featured-photos.json"), None)
    ELSE Ret(FALSE, "Unknown special route")

_validate_external_http(url) ==
    IF StartsWith(url, "//")
    THEN LET Relative(parsed) ==
                 IF parsed.raised
                 THEN Ret(FALSE, "Protocol-relative URL parsing error")
                 ELSE IF parsed.netloc = ""
                      THEN Ret(FALSE, "Invalid protocol-relative URL format")
                 ELSE Ret(TRUE, None)
         IN  Relative(UrlParse("https:" \o url))
    ELSE LET Absolute(parsed) ==
                 IF parsed.raised THEN Ret(FALSE, "URL parsing error")
                 ELSE IF parsed.scheme = "" \/ parsed.netloc = ""
                      THEN Ret(FALSE, "Invalid URL format")
                 ELSE IF parsed.scheme \notin {"http", "https"}
                      THEN Ret(FALSE, "Unsupported protocol")
                 ELSE Ret(TRUE, None)
         IN  Absolute(UrlParse(url))

\* ^[a-zA-Z0-9._%+-]+@[a-zA-Z0-9.-]+\.[a-zA-Z]{2,}$
EmailLocalChars  == Letters \cup DigitChars \cup {".", "_", "%", "+", "-"}
EmailDomainChars == Letters \cup DigitChars \cup {".", "-"}

EmailMatch(s) ==
    LET n == Span(s, EmailLocalChars) IN
    /\ n >= 1
    /\ Len(s) > n
    /\ SubSeq(s, n + 1, n + 1) = "@"
    /\ LET d == From(s, n + 2) IN
       /\ AllIn(d, EmailDomainChars)
       /\ \E k \in 2..Len(d) :
             \* d = <one or more domain characters> "." <two or more letters>
             /\ SubSeq(d, k, k) = "."
             /\ Len(d) - k >= 2
             /\ AllIn(From(d, k + 1), Letters)

_validate_external_mailto(url) ==
    IF ~StartsWith(url, "mailto:")
    THEN Ret(FALSE, "Mailto link must start with 'mailto:'")
    ELSE LET email_part == BeforeFirst(From(url, 8), "?") IN
         IF ~EmailMatch(email_part) THEN Ret(FALSE, "Invalid email format")
         ELSE Ret(TRUE, None)

\* LinkValidator.validate_link: dispatch on the link type, every exception
\* turned into an invalid result.  Yields the LinkInfo fields it decides.
validate_link(files, url, link_type) ==
    LET \* the try block's outcome r, and the except clause
        Outcome(r) ==
            IF r.raised
            THEN [is_valid |-> FALSE, validation_error |-> "Validation error"]
            ELSE [is_valid |-> r.ok, validation_error |-> r.err]
    IN  Outcome(
            IF link_type = INTERNAL_PAGE THEN _validate_internal_page(files, url)
            ELSE IF link_type = INTERNAL_FILE THEN _validate_internal_file(files, url)
            ELSE IF link_type = INTERNAL_IMAGE THEN _validate_internal_image(files, url)
            ELSE IF link_type = API_ENDPOINT THEN _validate_api_endpoint(url)
            ELSE IF link_type = SPECIAL_ROUTE THEN _validate_special_route(files, url)
            ELSE IF link_type = EXTERNAL_HTTP THEN _validate_external_http(url)
            ELSE IF link_type = EXTERNAL_MAILTO THEN _validate_external_mailto(url)
            ELSE IF link_type \in {FRAGMENT, JAVASCRIPT} THEN Ret(TRUE, None)
            ELSE Ret(FALSE, "Unknown link type"))

(***************************************************************************)
(* Tools validator: LinkValidationResult and LinkValidator.                *)
(***************************************************************************)
LinkValidationResult(link, is_valid, link_type, target_path, error_message) ==
    [raised |-> FALSE, link |-> link, is_valid |-> is_valid,
     link_type |-> link_type, target_path |-> target_path,
     error_message |-> error_message]

\* An exception left the call: there is no result object.
Raised(link) ==
    [raised |-> TRUE, link |-> link, is_valid |-> FALSE, link_type |-> None,
     target_path |-> None, error_message |-> None]

\* The configuration _load_config falls back to.  shape tells what kind of
\* JSON value the configuration and its "exclusion_patterns" and
\* "validation_settings" entries are: "object" when all are objects.
DefaultConfig ==
    [shape |-> "object",
     skip_dns_prefetch |-> TRUE,
     skip_protocol_relative |-> TRUE,
     dns_prefetch_links |-> {"//fonts.googleapis.com", "//fonts.gstatic.com"},
     protocol_relative_pattern |-> "^//[a-zA-Z0-9.-]+\\.[a-zA-Z]{2,}",
     skip_rel_attributes |-> {"dns-prefetch", "preconnect", "prefetch"}]

\* The configuration read from the file {}: every entry is missing and
\* takes the default of its .get
EmptyConfig ==
    [shape |-> "object",
     skip_dns_prefetch |-> FALSE,
     skip_protocol_relative |-> FALSE,
     dns_prefetch_links |-> {},
     protocol_relative_pattern |-> "",
     skip_rel_attributes |-> {}]

\* The configuration files a project can have: none, one that cannot be
\* read (not UTF-8, a directory, no permission), one that is not JSON, and
\* JSON files: the default table written out, {}, a value that is no
\* object ([]), an object whose "exclusion_patterns" is no object.
ConfigFiles ==
    {[state |-> st, json |-> EmptyConfig] :
         st \in {"missing", "unreadable", "invalid_json"}}
    \cup {[state |-> "json", json |-> c] :
             c \in {DefaultConfig, EmptyConfig,
                    [EmptyConfig EXCEPT !.shape = "array"],
                    [EmptyConfig EXCEPT !.shape = "exclusion_patterns_array"]}}

\* _load_config: open and json.load, with FileNotFoundError and
\* json.JSONDecodeError caught; any other exception leaves __init__
_load_config(config_file) ==
    IF config_file.state \in {"missing", "invalid_json"}
    THEN [raised |-> FALSE, config |-> DefaultConfig]
    ELSE IF config_file.state = "unreadable"
    THEN [raised |-> TRUE, config |-> DefaultConfig]
    ELSE [raised |-> FALSE, config |-> config_file.json]

\* self.config.get and exclusions.get raise AttributeError on a value that
\* is no dict
ConfigRaises(config) == config.shape # "object"

HostChars == Letters \cup DigitChars \cup {".", "-"}

\* re.match(r'^//[a-zA-Z0-9.-]+\.[a-zA-Z]{2,}', link): a prefix match
ProtocolRelativePatternMatch(link) ==
    /\ StartsWith(link, "//")
    /\ LET r == From(link, 3)
           n == Span(r, HostChars)
       IN  \E k \in 2..(n - 2) :
              /\ SubSeq(r, k, k) = "."
              /\ SubSeq(r, k + 1, k + 1) \in Letters
              /\ SubSeq(r, k + 2, k + 2) \in Letters

\* re.match(pattern, link) for the patterns a configuration can hold here:
\* the default one, or none.
ConfigPatternMatch(pattern, link) ==
    pattern # "" /\ ProtocolRelativePatternMatch(link)

\* rel is the element's rel attribute, "" when it has none.
_should_skip_link(config, link, rel) ==
    \/ Lower(rel) \in config.skip_rel_attributes
    \/ link \in config.dns_prefetch_links
    \/ /\ config.skip_protocol_relative
       /\ StartsWith(link, "//")
       /\ ConfigPatternMatch(config.protocol_relative_pattern, link)

_validate_asset_link(files, link) ==
    LET Result(parsed, path, asset_type, is_valid) ==
            IF parsed.raised THEN Raised(link)
            ELSE LinkValidationResult(link, is_valid, asset_type,
                     IF is_valid THEN NormPath(path) ELSE None,
                     IF is_valid THEN None ELSE "Asset not found")
        Asset(parsed, path) ==
            Result(parsed, path,
                   IF StartsWith(path, "css/") THEN "css"
                   ELSE IF StartsWith(path, "js/") THEN "javascript"
                   ELSE IF StartsWith(path, "images/") THEN "image"
                   ELSE "asset",
                   Exists(files, path))
        Parsed(parsed) == Asset(parsed, LStrip(parsed.path, {"/"}))
    IN  Parsed(UrlParse(link))

RECURSIVE _validate_internal_link(_, _)
_validate_internal_link(files, link) ==
    LET Json(e, json_path, error_message) ==
            LinkValidationResult(link, e, "internal",
                IF e THEN json_path ELSE None,
                IF e THEN None ELSE error_message)
        Internal(path) ==
            IF path = "" THEN _validate_internal_link(files, "/home")
            ELSE IF path = "featured-photos.json"
                 THEN Json(Exists(files, "public/featured-photos.json"),
                           "public/featured-photos.json",
                           "Featured photos JSON not found")
            ELSE IF StartsWith(path, "gallery-data/") /\ EndsWith(path, ".json")
                 THEN Json(Exists(files, "public/" \o path), "public/" \o path,
                           "Gallery data JSON not found")
            ELSE IF \E asset_type \in {"css", "js", "images"} :
                        StartsWith(path, asset_type \o "/")
                 THEN _validate_asset_link(files, link)
            ELSE IF Exists(files, "pages/" \o path \o ".html")
                 THEN LinkValidationResult(link, TRUE, "internal",
                          "pages/" \o path \o ".html", None)
            ELSE IF /\ IsDir(files, "pages/" \o path)
                    /\ Exists(files, "pages/" \o path \o "/index.html")
                 THEN LinkValidationResult(link, TRUE, "internal",
                          "pages/" \o path \o "/index.html", None)
            ELSE IF Exists(files, path \o ".html")
                 THEN LinkValidationResult(link, TRUE, "internal", path \o ".html", None)
            ELSE LinkValidationResult(link, FALSE, "internal", None,
                     "No matching page found for clean URL")
    IN  Internal(LStrip(link, {"/"}))

valid_api_endpoints ==
    {"api/featured-photos", "api/gallery", "api/drive-folders",
     "api/debug-gallery"}

\* re.match(r'^api/image-proxy/[a-zA-Z0-9_-]{10,50}$', path)
image_proxy_pattern(path) ==
    /\ StartsWith(path, "api/image-proxy/")
    /\ LET id == From(path, Len("api/image-proxy/") + 1) IN
       /\ AllIn(id, FileIdChars)
       /\ Len(id) >= FileIdMin
       /\ Len(id) <= FileIdMax

_validate_api_link(link) ==
    LET path == LStrip(link, {"/"}) IN
    IF path \in valid_api_endpoints
    THEN LinkValidationResult(link, TRUE, "api", "Server endpoint", None)
    ELSE IF image_proxy_pattern(path)
    THEN LinkValidationResult(link, TRUE, "api", "Image proxy endpoint", None)
    ELSE LinkValidationResult(link, FALSE, "api", None, "Unknown API endpoint")

\* re.match(r'https://(?:www\.)?<host>/<cs>+/?', link, re.IGNORECASE)
SocialMatch(link, host, cs) ==
    LET l == Lower(link) IN
    \E pre \in {"https://" \o host \o "/", "https://www." \o host \o "/"} :
        /\ StartsWith(l, pre)
        /\ Len(l) > Len(pre)
        /\ SubSeq(link, Len(pre) + 1, Len(pre) + 1) \in cs

\* re.match(r'https://<prefix><cs>+...', link, re.IGNORECASE)
PrefixThenChar(link, prefix, cs) ==
    /\ StartsWith(Lower(link), prefix)
    /\ Len(link) > Len(prefix)
    /\ SubSeq(link, Len(prefix) + 1, Len(prefix) + 1) \in cs

\* social_patterns, in the dictionary's order
social_domains ==
    <<"instagram.com", "facebook.com", "twitter.com", "x.com", "youtube.com",
      "linkedin.com", "wa.me", "api.whatsapp.com">>

social_pattern_match(social_domain, link) ==
    CASE social_domain = "instagram.com" ->
             SocialMatch(link, "instagram.com", WordChars \cup {"."})
      [] social_domain = "facebook.com" ->
             SocialMatch(link, "facebook.com", WordChars \cup {".", "-"})
      [] social_domain = "twitter.com" ->
             SocialMatch(link, "twitter.com", WordChars)
      [] social_domain = "x.com" ->
             SocialMatch(link, "x.com", WordChars)
      [] social_domain = "youtube.com" ->
             SocialMatch(link, "youtube.com", WordChars \cup {"@", ".", "-"})
      [] social_domain = "linkedin.com" ->
             SocialMatch(link, "linkedin.com", WordChars \cup {"/", "-"})
      [] social_domain = "wa.me" ->
             PrefixThenChar(link, "https://wa.me/", DigitChars \cup {"+"})
      [] social_domain = "api.whatsapp.com" ->
             PrefixThenChar(link, "https://api.whatsapp.com/send?phone=",
                            DigitChars \cup {"+"})

_validate_external_link(link, parsed) ==
    IF parsed.netloc = ""
    THEN LinkValidationResult(link, FALSE, "external", None,
             "Invalid URL: missing domain")
    ELSE LET domain == Replace(Lower(parsed.netloc), "www.", "")
             hits == {i \in 1..Len(social_domains) :
                         \/ domain = social_domains[i]
                         \/ EndsWith(domain, "." \o social_domains[i])}
         IN  IF hits # {}
             THEN LET social_domain == social_domains[Min(hits)] IN
                  IF social_pattern_match(social_domain, link)
                  THEN LinkValidationResult(link, TRUE, "external",
                           "Social media: " \o social_domain, None)
                  ELSE LinkValidationResult(link, FALSE, "external", None,
                           "Invalid " \o social_domain \o " URL format")
             ELSE IF parsed.scheme \in {"http", "https"} /\ parsed.netloc # ""
             THEN LinkValidationResult(link, TRUE, "external",
                      "External: " \o parsed.netloc, None)
             ELSE LinkValidationResult(link, FALSE, "external", None,
                      "Invalid external URL format")

known_patterns ==
    {"fonts.googleapis.com", "fonts.gstatic.com", "cdnjs.cloudflare.com",
     "cdn.jsdelivr.net"}

\* re.match(r'^[a-zA-Z0-9.-]+\.[a-zA-Z]{2,}$', domain)
domain_pattern(domain) ==
    /\ AllIn(domain, HostChars)
    /\ \E k \in 2..Len(domain) :
          /\ SubSeq(domain, k, k) = "."
          /\ Len(domain) - k >= 2
          /\ AllIn(From(domain, k + 1), Letters)

_validate_protocol_relative_link(link) ==
    LET domain_part == From(link, 3) IN
    IF domain_part = "" \/ ~Contains(domain_part, ".")
    THEN LinkValidationResult(link, FALSE, "protocol_relative", None,
             "Invalid protocol-relative URL: missing or invalid domain")
    ELSE LET domain == BeforeFirst(domain_part, "/") IN
         IF domain \in known_patterns
         THEN LinkValidationResult(link, TRUE, "protocol_relative",
                  "External CDN", None)
         ELSE IF domain_pattern(domain)
         THEN LinkValidationResult(link, TRUE, "protocol_relative",
                  "External protocol-relative: " \o domain, None)
         ELSE LinkValidationResult(link, FALSE, "protocol_relative", None,
                  "Invalid protocol-relative URL domain")

_validate_mailto_link(link, parsed) ==
    LET email == parsed.path IN
    IF EmailMatch(email)
    THEN LinkValidationResult(link, TRUE, "mailto", "Email: " \o email, None)
    ELSE LinkValidationResult(link, FALSE, "mailto", None,
             "Invalid email address")

\* re.match(r'^[a-zA-Z][\w-]*$', anchor)
AnchorMatch(anchor) ==
    /\ anchor # ""
    /\ SubSeq(anchor, 1, 1) \in Letters
    /\ AllIn(anchor, WordChars \cup {"-"})

_validate_anchor_link(link) ==
    LET anchor == LStrip(link, {"#"}) IN
    IF anchor = ""
    THEN LinkValidationResult(link, TRUE, "anchor", "Page top", None)
    ELSE IF AnchorMatch(anchor)
    THEN LinkValidationResult(link, TRUE, "anchor", "Page anchor: #" \o anchor, None)
    ELSE LinkValidationResult(link, FALSE, "anchor", None, "Invalid anchor format")

\* Path(source_file).parent, source_file relative to the project root
RECURSIVE Parent(_)
Parent(p) ==
    IF ~Contains(p, "/") THEN ""
    ELSE LET seg == BeforeFirst(p, "/")
             rest == Parent(AfterFirst(p, "/"))
         IN  IF rest = "" THEN seg ELSE seg \o "/" \o rest

\* (source_dir / link).resolve(): ".." removes the segment before it.  A
\* path that climbs above the project root keeps its ".." and names nothing
\* in files.
RECURSIVE Resolve(_, _)
Resolve(done, p) ==
    IF p = "" THEN done
    ELSE LET seg  == BeforeFirst(p, "/")
             rest == AfterFirst(p, "/")
         IN  IF seg = "" \/ seg = "." THEN Resolve(done, rest)
             ELSE IF seg = ".." /\ done # "" /\ ~StartsWith(done, "..")
                  THEN Resolve(Parent(done), rest)
             ELSE Resolve(IF done = "" THEN seg ELSE done \o "/" \o seg, rest)

\* _validate_relative_link resolving a link without source file against the
\* project root
_validate_relative_link_from_root(files, link, source_file) ==
    LET target_path ==
            Resolve(IF source_file = None THEN "" ELSE Parent(source_file), link)
    IN  IF Exists(files, target_path)
        THEN LinkValidationResult(link, TRUE, "relative", target_path, None)
        ELSE LinkValidationResult(link, FALSE, "relative", None,
                 "Relative link target not found")

\* source_file is None when the caller gave none
_validate_relative_link(files, link, source_file) ==
    IF source_file = None
    THEN LinkValidationResult(link, FALSE, "relative", None,
             "Cannot validate relative link without source file context")
    ELSE LET target_path == Resolve(Parent(source_file), link) IN
         IF Exists(files, target_path)
         THEN LinkValidationResult(link, TRUE, "relative", target_path, None)
         ELSE LinkValidationResult(link, FALSE, "relative", None,
                  "Relative link target not found")

\* LinkValidator.validate_link(link, source_file, link_attributes)
tools_validate_link(config, files, link, source_file, rel) ==
    IF link = ""
    THEN LinkValidationResult(link, FALSE, "invalid", None, "Empty or invalid link")
    ELSE IF ConfigRaises(config) THEN Raised(link)
    ELSE IF _should_skip_link(config, link, rel)
    THEN LinkValidationResult(link, TRUE, "skipped", "Skipped", None)
    ELSE LET Dispatch(parsed) ==
                 IF parsed.raised THEN Raised(link)
                 ELSE IF parsed.scheme \in {"http", "https"}
                      THEN _validate_external_link(link, parsed)
                 ELSE IF StartsWith(link, "//")
                      THEN _validate_protocol_relative_link(link)
                 ELSE IF parsed.scheme = "mailto"
                      THEN _validate_mailto_link(link, parsed)
                 ELSE IF StartsWith(link, "#") THEN _validate_anchor_link(link)
                 ELSE IF StartsWith(link, "/api/") THEN _validate_api_link(link)
                 ELSE IF StartsWith(link, "/")
                      THEN _validate_internal_link(files, link)
                 ELSE _validate_relative_link(files, link, source_file)
         IN  Dispatch(UrlParse(Strip(link)))

\* LinkValidator.validate_link(link, source_file) of link_validator.py at
\* the project root: no skip rules and no protocol-relative branch; the
\* validators it dispatches to are those of the tools validator.
root_validate_link(files, link, source_file) ==
    IF link = ""
    THEN LinkValidationResult(link, FALSE, "invalid", None, "Empty or invalid link")
    ELSE LET Dispatch(parsed) ==
                 IF parsed.raised THEN Raised(link)
                 ELSE IF parsed.scheme \in {"http", "https"}
                      THEN _validate_external_link(link, parsed)
                 ELSE IF parsed.scheme = "mailto"
                      THEN _validate_mailto_link(link, parsed)
                 ELSE IF StartsWith(link, "#") THEN _validate_anchor_link(link)
                 ELSE IF StartsWith(link, "/api/") THEN _validate_api_link(link)
                 ELSE IF StartsWith(link, "/")
                      THEN _validate_internal_link(files, link)
                 ELSE _validate_relative_link(files, link, source_file)
         IN  Dispatch(UrlParse(Strip(link)))

(***************************************************************************)
(* Inputs of the single-link calls: URLs built from a prefix, a body and a *)
(* suffix, the image-proxy ids around both length limits, and the URLs the *)
(* specification's scenarios name.                                         *)
(***************************************************************************)
UrlPrefixes ==
    {"", "/", "//", "#", "https://", "mailto:", "javascript:", "/api/",
     "/gallery-data/", "x://", "/images/", "/API/"}

UrlBodies == {"", "info", "boulder-fest-2025", "logo", "a@b.co", "[a"}

UrlSuffixes == {"", ".css", ".png", ".json", "?v=2", "#f", ".png?v=2"}

FileIds ==
    {Repeat("A", FileIdMin - 1), Repeat("A", FileIdMin),
     Repeat("A", FileIdMax), Repeat("A", FileIdMax + 1)}

ScenarioUrls ==
    {"/home", "/nonexistent-page", "/css/base.css?v=2", "mailto:foo@bar",
     "/api/image-proxy/AbC123xyz9", "/api/image-proxy/short",
     "https://www.instagram.com/someuser/", "https://instagram.com/",
     "/api/gallery", "/api/gallery?x=1", "/api/featured-photos",
     "//fonts.googleapis.com", "//cdn.jsdelivr.net/npm/x.js", "HTTP://h.io",
     "https://wa.me/1234567890", " /info", "../css/base.css", "info.html",
     "/featured-photos.json", "/gallery-data/g?x=.json", "/info/",
     "javascript:void(0)", "javascript:;", "javascript:alert(1)",
     " javascript:x()", "JavaScript:void(0)", "data:text/plain,hi",
     "${url}", "fileId",
     "https://m.facebook.com/page", "http://instagram.com/user",
     "https://instagram.com:443/user", "https://awww.x.com/u",
     "https://example.com", "https://:80/", "https://www.youtube.com/@chan",
     "https://api.whatsapp.com/send?phone=1", "https://wa.me/",
     "HTTPS://WWW.Instagram.com/u",
     "MAILTO:a@b.co", "mailto:a@b_c.co", "mailto:a_b@c.co",
     "##", "##top", "#1abc", "#a-b_c", "#top",
     "//example.com", "//x.co/a.png", "//a.b", "//a@b.co", "//exa_mple.com",
     "//-.aa"}

Urls ==
    {p \o b \o s : p \in UrlPrefixes, b \in UrlBodies, s \in UrlSuffixes}
    \cup {"/api/image-proxy/" \o id \o t : id \in FileIds, t \in {"", "!", "/x"}}
    \cup ScenarioUrls

\* The files a link of Urls can resolve to.
PagePaths ==
    {"pages/info.html", "info.html", "info/index.html", "pages/info/index.html"}
RoutePaths ==
    {"pages/boulder-fest-2025-index.html", "pages/boulder-fest-2025.html"}
AssetPaths ==
    {"index.html", "pages/home.html", "css/base.css", "images/logo.png",
     "public/gallery-data/info.json"}

\* Filesystem states: every subset of the files one page link can resolve
\* to, with and without the other files of the site.
FsChoices ==
    {P \cup A : P \in (SUBSET PagePaths) \cup (SUBSET RoutePaths),
                A \in {{}, AssetPaths}}

SourceFiles == {None, "pages/info.html"}
RelValues == {"", "preconnect"}

NoCall == [op |-> "none"]

(***************************************************************************)
(* Test framework: LinkInfo, ValidationResults, the parser's link          *)
(* collection and TestRunner.                                              *)
(***************************************************************************)
LinkInfo(url, source_file, line_number, link_type, element_tag) ==
    [url |-> url, source_file |-> source_file, line_number |-> line_number,
     link_type |-> link_type, element_tag |-> element_tag,
     is_valid |-> None, validation_error |-> None]

ValidationResults ==
    [total_links |-> 0, valid_links |-> 0, invalid_links |-> 0,
     links_by_type |-> [t \in LinkType |-> 0],
     broken_links |-> <<>>, all_links |-> <<>>]

skip_patterns ==
    {"${", "request.url", "link.href", "imageUrl", "fileId", "scriptSrc",
     "imageSrc", "document.", "</span>", "&lt;", "&gt;", "blurredDataUrl",
     "item.thumbnailUrl"}

single_word_variables == {"url", "imageUrl", "fileId"}

_is_template_variable(url) ==
    \/ Strip(url) \in single_word_variables
    \/ \E pattern \in skip_patterns : Contains(url, pattern)

\* The parser while it reads a document: the links collected so far, the
\* line counter, and whether an exception has left a handler.
LinkExtractorParser == [links |-> <<>>, current_line |-> 1, raised |-> FALSE]

\* the tags and attributes that contain links
link_attributes ==
    [a |-> <<"href">>, link |-> <<"href">>, script |-> <<"src">>,
     img |-> <<"src">>, source |-> <<"src", "srcset">>, iframe |-> <<"src">>,
     form |-> <<"action">>, area |-> <<"href">>, base |-> <<"href">>]

_add_link(parser, url, tag, source_file) ==
    IF url = "" \/ url \in {"#", "javascript:void(0)", "javascript:;"}
    THEN parser
    ELSE IF _is_template_variable(url) THEN parser
    ELSE LET Add(link_type) ==
                 IF link_type = ValueError
                 THEN [parser EXCEPT !.raised = TRUE]
                 ELSE [parser EXCEPT
                          !.links = Append(@, LinkInfo(url, source_file,
                                        parser.current_line, link_type, tag))]
         IN  Add(_classify_link(url))

\* str.split(sep): the parts of s between the separators
RECURSIVE Split(_, _)
Split(s, sep) ==
    IF Contains(s, sep)
    THEN <<BeforeFirst(s, sep)>> \o Split(AfterFirst(s, sep), sep)
    ELSE <<s>>

\* item.strip().split()[0]: the first part of a candidate that has no
\* whitespace in it
FirstPart(item) ==
    LET t == Strip(item)
        W == {i \in 1..Len(t) : SubSeq(t, i, i) \in Whitespace}
    IN  IF W = {} THEN t ELSE SubSeq(t, 1, Min(W) - 1)

\* the URLs of a srcset value "url1 descriptor1, url2 descriptor2, ..."
_parse_srcset(srcset) ==
    LET items == Split(srcset, ",")
        RECURSIVE Urls_(_)
        Urls_(k) ==
            IF k > Len(items) THEN <<>>
            ELSE IF Strip(items[k]) = "" THEN Urls_(k + 1)
            ELSE <<FirstPart(items[k])>> \o Urls_(k + 1)
    IN  Urls_(1)

\* name in dict(attrs)
HasAttr(attrs, name) == \E i \in 1..Len(attrs) : attrs[i][1] = name

\* dict(attrs)[name]: the value of the last attribute of that name; the
\* value of an attribute written without a value is None
AttrGet(attrs, name) ==
    LET I == {i \in 1..Len(attrs) : attrs[i][1] = name}
    IN  attrs[CHOOSE i \in I : \A j \in I : j <= i][2]

\* handle_starttag(tag, attrs), attrs being the (name, value) pairs of the
\* tag in the order written
handle_starttag(parser, tag, attrs, source_file) ==
    IF tag \notin DOMAIN link_attributes THEN parser
    ELSE LET names == link_attributes[tag]
             RECURSIVE AddAll(_, _)
             AddAll(p, urls) ==
                 IF urls = <<>> \/ p.raised THEN p
                 ELSE AddAll(_add_link(p, Head(urls), tag, source_file),
                             Tail(urls))
             RECURSIVE Each(_, _)
             Each(p, k) ==
                 IF k > Len(names) \/ p.raised THEN p
                 ELSE IF ~HasAttr(attrs, names[k]) THEN Each(p, k + 1)
                 ELSE LET value == AttrGet(attrs, names[k]) IN
                      IF value = None \/ value = "" THEN Each(p, k + 1)
                      ELSE IF names[k] = "srcset"
                      THEN Each(AddAll(p, _parse_srcset(Strip(value))), k + 1)
                      ELSE Each(_add_link(p, Strip(value), tag, source_file),
                                k + 1)
         IN  Each(parser, 1)

\* str.count: how often the character c is in s
Count(s, c) == Cardinality({i \in 1..Len(s) : SubSeq(s, i, i) = c})

\* handle_data(data) counts the newlines of the text
handle_data(parser, data) ==
    [parser EXCEPT !.current_line = @ + Count(data, "\n")]

\* HTMLParser.feed over a document made of the elements <a href="...">
\* one after the other on one line, in document order; an exception in a
\* handler ends the parse.
RECURSIVE feed(_, _, _)
feed(parser, hrefs, source_file) ==
    IF hrefs = <<>> \/ parser.raised THEN parser
    ELSE feed(handle_starttag(parser, "a", <<<<"href", Head(hrefs)>>>>,
                              source_file),
              Tail(hrefs), source_file)

\* Path.match on the excluded patterns that can apply to a document's name
Excluded(name) ==
    \/ Contains(Basename(name), "test")
    \/ StartsWith(Basename(name), "favicon-")

\* the documents a site can hold, in the order the directory listing gives
DocNames ==
    <<"index.html", "pages/about.html", "pages/home.html", "pages/contact.html">>

find_html_files(files) ==
    SelectSeq(DocNames, LAMBDA name : name \in files /\ ~Excluded(name))

\* the document stored under a name
DocOf(documents, name) ==
    documents[CHOOSE k \in 1..Len(documents) : documents[k].name = name]

\* +1 for every link of a type
RECURSIVE CountTypes(_, _)
CountTypes(by_type, links) ==
    IF links = <<>> THEN by_type
    ELSE CountTypes([by_type EXCEPT ![Head(links).link_type] = @ + 1],
                    Tail(links))

_test_file(document) ==
    IF ~document.readable
    THEN ValidationResults          \* open or read raised: message printed
    ELSE LET Collect(parser) ==
                 IF parser.raised
                 THEN ValidationResults     \* feed raised: message printed
                 ELSE [ValidationResults EXCEPT
                          !.all_links = parser.links,
                          !.total_links = Len(parser.links),
                          !.links_by_type = CountTypes(@, parser.links)]
         IN  Collect(feed(LinkExtractorParser, document.links, document.name))

\* _merge_results with the addition to total_links lost
_merge_results_without_total(main_results, file_results) ==
    [main_results EXCEPT
        !.all_links = @ \o file_results.all_links,
        !.links_by_type =
            [t \in LinkType |-> @[t] + file_results.links_by_type[t]]]

_merge_results(main_results, file_results) ==
    [main_results EXCEPT
        !.total_links = @ + file_results.total_links,
        !.all_links = @ \o file_results.all_links,
        !.links_by_type =
            [t \in LinkType |-> @[t] + file_results.links_by_type[t]]]

\* the loop of _perform_validation from link k on
RECURSIVE ValidateFrom(_, _, _)
ValidateFrom(files, results, k) ==
    IF k > Len(results.all_links) THEN results
    ELSE LET Record(link, r) ==
                 IF r.is_valid
                 THEN [results EXCEPT
                          !.all_links[k] =
                              [link EXCEPT !.is_valid = TRUE,
                                  !.validation_error = r.validation_error],
                          !.valid_links = @ + 1]
                 ELSE [results EXCEPT
                          !.all_links[k] =
                              [link EXCEPT !.is_valid = FALSE,
                                  !.validation_error = r.validation_error],
                          !.invalid_links = @ + 1,
                          !.broken_links =
                              Append(@, [link EXCEPT !.is_valid = FALSE,
                                  !.validation_error = r.validation_error])]
             Validate(link) ==
                 Record(link, validate_link(files, link.url, link.link_type))
         IN  ValidateFrom(files, Validate(results.all_links[k]), k + 1)

_perform_validation(files, results) == ValidateFrom(files, results, 1)

\* the loop of run_all_tests from file k on
RECURSIVE TestFrom(_, _, _, _)
TestFrom(documents, names, results, k) ==
    IF k > Len(names) THEN results
    ELSE TestFrom(documents, names,
                  _merge_results(results, _test_file(DocOf(documents, names[k]))),
                  k + 1)

run_all_tests(files, documents) ==
    _perform_validation(files,
        TestFrom(documents, find_html_files(files), ValidationResults, 1))

\* the exit code main() returns for the results of a run
main(results) == IF results.invalid_links > 0 THEN 1 ELSE 0

\* main() of the minimal test_link_validation.py that run_link_tests.py at
\* the project root starts in its own directory
required_files == {"package.json", "vercel.json", "index.html"}

minimal_main(files) ==
    IF \E file \in required_files : ~Exists(files, file) THEN 1 ELSE 0

(***************************************************************************)
(* Tools validator: extraction, per-file validation and the report.        *)
(***************************************************************************)
\* unique_links: the first occurrence of every URL, in order
RECURSIVE Unique(_, _)
Unique(links, seen) ==
    IF links = <<>> THEN <<>>
    ELSE IF Head(links) \in seen THEN Unique(Tail(links), seen)
    ELSE <<Head(links)>> \o Unique(Tail(links), seen \cup {Head(links)})

\* extract_links_from_html over the document's <a href="value"> elements
extract_links_from_html(hrefs) ==
    Unique(SelectSeq(hrefs, LAMBDA link_url :
               /\ link_url # ""
               /\ ~StartsWith(link_url, "javascript:")
               /\ ~StartsWith(link_url, "data:")),
           {})

\* The string hash seed of a Python process: it fixes the order in which a
\* set of strings is iterated, and differs from process to process.
HashSeeds == {0, 1}

\* list(set(links)): the distinct links in an order the hash seed decides;
\* two of the orders a process can produce.
SetOrder(seed, links) ==
    IF seed = 0 THEN links
    ELSE [k \in 1..Len(links) |-> links[Len(links) + 1 - k]]

\* extract_links_from_html of link_validator.py at the project root, over
\* the document's <a href="value"> elements
root_extract_links_from_html(seed, hrefs) ==
    SetOrder(seed,
        Unique(SelectSeq(hrefs, LAMBDA link :
                   /\ link # ""
                   /\ ~StartsWith(link, "javascript:")
                   /\ ~StartsWith(link, "data:")),
               {}))

\* validate_file_links of link_validator.py at the project root
root_validate_file_links(seed, files, document) ==
    LET FileError ==
            <<LinkValidationResult(document.name, FALSE, "file", None,
                                   "Error reading file")>>
        Outcome(results) ==
            IF \E k \in 1..Len(results) : results[k].raised
            THEN FileError
            ELSE results
        Each(links) ==
            Outcome([k \in 1..Len(links) |->
                        root_validate_link(files, links[k], document.name)])
    IN  IF ~document.readable THEN FileError
        ELSE Each(root_extract_links_from_html(seed, document.links))

validate_file_links(config, files, document) ==
    LET FileError ==
            <<LinkValidationResult(document.name, FALSE, "file", None,
                                   "Error reading file")>>
        Outcome(results) ==
            IF \E k \in 1..Len(results) : results[k].raised
            THEN FileError
            ELSE results
        Each(links) ==
            Outcome([k \in 1..Len(links) |->
                        tools_validate_link(config, files, links[k],
                                            document.name, "")])
    IN  IF ~document.readable THEN FileError
        ELSE Each(extract_links_from_html(document.links))

\* glob("*.html") of the project root, then of the pages directory
html_files(files) == SelectSeq(DocNames, LAMBDA name : name \in files)

\* Path(name).stem of a page
Stem(name) ==
    LET Cut(base) ==
            IF EndsWith(base, ".html") THEN Take(base, Len(base) - 5) ELSE base
    IN  Cut(Basename(name))

get_all_valid_internal_urls(files) ==
    {"/", "/home"}
    \cup {"/" \o Stem(f) : f \in {g \in files : /\ StartsWith(g, "pages/")
                                                /\ EndsWith(g, ".html")
                                                /\ Basename(g) = From(g, 7)}}
    \cup api_endpoints

\* every result of the run, with the document it belongs to, in order
RECURSIVE Flatten(_)
Flatten(all_results) ==
    IF all_results = <<>> THEN <<>>
    ELSE LET First(entry) ==
                 [k \in 1..Len(entry.results) |->
                     [file |-> entry.file, result |-> entry.results[k]]]
         IN  First(Head(all_results)) \o Flatten(Tail(all_results))

\* validation_rate with a report over no links counted as fully valid
validation_rate_full_when_empty(valid_links, total_links) ==
    IF total_links > 0
    THEN (valid_links * 10000) \div total_links
    ELSE 10000

\* round(100 * valid / total, 2), in hundredths of a percent
validation_rate(valid_links, total_links) ==
    IF total_links > 0
    THEN LET Round(q, r) ==
                 IF 2 * r > total_links \/ (2 * r = total_links /\ q % 2 = 1)
                 THEN q + 1 ELSE q
         IN  Round((valid_links * 10000) \div total_links,
                   (valid_links * 10000) % total_links)
    ELSE 0

generate_link_validation_report(files, all_results) ==
    LET Report(flat) ==
            LET Summary(total_links, valid_links) ==
                    [total_links |-> total_links,
                     valid_links |-> valid_links,
                     invalid_links |-> total_links - valid_links,
                     validation_rate |->
                         validation_rate(valid_links, total_links)]
                bad == SelectSeq(flat, LAMBDA e : ~e.result.is_valid)
            IN  [summary |->
                     Summary(Len(flat),
                             Len(SelectSeq(flat, LAMBDA e : e.result.is_valid))),
                 issues |->
                     [k \in 1..Len(bad) |->
                         [type |-> bad[k].result.link_type,
                          file |-> bad[k].file,
                          link |-> bad[k].result.link,
                          error |-> bad[k].result.error_message]],
                 detailed_results |-> all_results,
                 valid_internal_urls |-> get_all_valid_internal_urls(files)]
    IN  Report(Flatten(all_results))

(***************************************************************************)
(* Sites: the documents, each readable or not, with the href values of its *)
(* links in document order.                                                *)
(***************************************************************************)
MaxDocs == 2

DocUrls == {"/about", "/missing", "x://[a", "//fonts.googleapis.com"}

DocLinkLists ==
    {<<>>} \cup {<<a>> : a \in DocUrls} \cup {<<a, b>> : a, b \in DocUrls}

DocContents ==
    {[readable |-> TRUE, links |-> l] : l \in DocLinkLists}
    \cup {[readable |-> FALSE, links |-> <<>>]}

\* what the documents after the first hold
FurtherContents ==
    {[readable |-> TRUE, links |-> l] :
         l \in {<<>>, <<"x://[a">>, <<"/about", "/missing">>}}
    \cup {[readable |-> FALSE, links |-> <<>>]}

Sites ==
    UNION {{[k \in 1..n |->
                [name |-> DocNames[k], readable |-> c[k].readable,
                 links |-> c[k].links]] :
               c \in {d \in [1..n -> DocContents] :
                         \A k \in 2..n : d[k] \in FurtherContents}}
           : n \in 0..MaxDocs}

ManifestFiles == {"package.json", "vercel.json"}

\* how often the same program is run over the unchanged site
MaxRuns == 2

\* run counts the runs started; previous holds the results of the run before
\* the current one.
TfIdle ==
    [pc |-> "idle", entry |-> None, html_files |-> <<>>, i |-> 0,
     results |-> ValidationResults, code |-> None, exit |-> None,
     run |-> 0, previous |-> None]

\* validator is the module the LinkValidator comes from, seed the hash seed
\* of its process.
TvIdle ==
    [pc |-> "idle", validator |-> None, seed |-> 0, html_files |-> <<>>,
     i |-> 0, results |-> <<>>, report |-> None, run |-> 0, previous |-> None]

\* no parser has been made
ParseIdle == [pc |-> "idle"]

\* the development server has not been started
ServerIdle == [pc |-> "stopped"]

\* the hash seeds that make a difference to a validator
SeedsOf(validator) == IF validator = "link_validator" THEN HashSeeds ELSE {0}

(***************************************************************************)
(* Single-link calls.                                                      *)
(***************************************************************************)
LinkInit ==
    /\ fs \in FsChoices
    /\ call = NoCall
    /\ docs = <<>>
    /\ tf = TfIdle
    /\ tv = TvIdle
    /\ parse = ParseIdle
    /\ server = ServerIdle

\* LinkExtractorParser._classify_link(url)
ClassifyLink ==
    /\ call = NoCall
    /\ \E url \in Urls :
          call' = [op |-> "classify", url |-> url, out |-> _classify_link(url)]
    /\ UNCHANGED <<fs, docs, tf, tv, parse, server>>

\* The test framework's pipeline on one link: _add_link builds the LinkInfo
\* with the classifier's type, LinkValidator.validate_link fills it in.
TFValidateLink ==
    /\ call = NoCall
    /\ \E url \in Urls :
          \E link_type \in {_classify_link(url)} :
          \E r \in {validate_link(fs, url, link_type)} :
              /\ link_type # ValueError
              /\ call' = [op |-> "tf_validate", url |-> url,
                          link_type |-> link_type, is_valid |-> r.is_valid,
                          validation_error |-> r.validation_error]
    /\ UNCHANGED <<fs, docs, tf, tv, parse, server>>

\* The tools LinkValidator.validate_link(link, source_file, link_attributes)
\* under the default configuration.
ToolsValidateLink ==
    /\ call = NoCall
    /\ \E link \in Urls, source_file \in SourceFiles, rel \in RelValues :
          call' = [op |-> "tools_validate", url |-> link,
                   source_file |-> source_file, rel |-> rel,
                   out |-> tools_validate_link(DefaultConfig, fs, link,
                                               source_file, rel)]
    /\ UNCHANGED <<fs, docs, tf, tv, parse, server>>

\* LinkExtractorParser.handle_starttag for an element <a href="url"> of
\* index.html, on a parser that has read nothing yet
HandleStartTag ==
    /\ call = NoCall
    /\ \E url \in Urls :
          call' = [op |-> "handle_starttag", url |-> url,
                   out |-> handle_starttag(LinkExtractorParser, "a",
                                           <<<<"href", url>>>>, "index.html")]
    /\ UNCHANGED <<fs, docs, tf, tv, parse, server>>

\* extract_links_from_html of a LinkValidator, on a document with the
\* elements <a href="url"> and <a href="other">
ExtractLinksFromHtml ==
    /\ call = NoCall
    /\ \E url \in Urls, other \in {"", "#", "/info"} :
       \E validator \in {"tools/link-validation/link_validator",
                          "link_validator"} :
       \E seed \in SeedsOf(validator) :
          call' = [op |-> "extract_links_from_html", url |-> url,
                   other |-> other, validator |-> validator,
                   out |-> IF validator = "link_validator"
                           THEN root_extract_links_from_html(seed,
                                    <<url, other>>)
                           ELSE extract_links_from_html(<<url, other>>)]
    /\ UNCHANGED <<fs, docs, tf, tv, parse, server>>

\* LinkValidator(project_root, config_path) of the tools validator:
\* __init__ loads the configuration
NewLinkValidator ==
    /\ call = NoCall
    /\ \E config_file \in ConfigFiles :
          call' = [op |-> "new_link_validator", config_file |-> config_file,
                   out |-> _load_config(config_file)]
    /\ UNCHANGED <<fs, docs, tf, tv, parse, server>>

\* validate_link(link) of the LinkValidator just constructed
ConfiguredValidateLink ==
    /\ call.op = "new_link_validator"
    /\ ~call.out.raised
    /\ \E link \in ScenarioUrls :
          call' = [op |-> "configured_validate",
                   config_file |-> call.config_file,
                   config |-> call.out.config, url |-> link,
                   out |-> tools_validate_link(call.out.config, fs, link,
                                               None, "")]
    /\ UNCHANGED <<fs, docs, tf, tv, parse, server>>

\* The caller takes the result; the validators keep nothing between calls.
Return ==
    /\ call # NoCall
    /\ call' = NoCall
    /\ UNCHANGED <<fs, docs, tf, tv, parse, server>>

LinkNext ==
    \/ ClassifyLink
    \/ TFValidateLink
    \/ ToolsValidateLink
    \/ HandleStartTag
    \/ ExtractLinksFromHtml
    \/ NewLinkValidator
    \/ ConfiguredValidateLink
    \/ Return

LinkSpec == LinkInit /\ [][LinkNext]_vars

(***************************************************************************)
(* Whole runs over a site.  The test framework is entered through main()   *)
(* or through one of the run_link_tests.py wrappers; the tools validator   *)
(* through generate_link_validation_report.                                *)
(***************************************************************************)
Init ==
    /\ docs \in Sites
    /\ fs \in {{docs[k].name : k \in 1..Len(docs)} \cup m :
                  m \in {{}, ManifestFiles}}
    /\ call = NoCall
    /\ tf = TfIdle
    /\ tv = TvIdle
    /\ parse = ParseIdle
    /\ server = ServerIdle

\* main() is started, by hand or as the child process of
\* tools/link-validation/run_link_tests.py; run_all_tests finds the files.
RunAllTests ==
    /\ tf.pc = "idle"
    /\ tv.pc = "idle"
    /\ \E entry \in {"main", "tools/link-validation/run_link_tests"} :
          tf' = [TfIdle EXCEPT !.pc = "testing", !.entry = entry,
                               !.html_files = find_html_files(fs), !.i = 1,
                               !.run = 1]
    /\ UNCHANGED <<fs, call, docs, tv, parse, server>>

\* the same command is run once more: a new process, a fresh TestRunner
RunAllTestsAgain ==
    /\ tf.pc = "exited"
    /\ tf.entry \in {"main", "tools/link-validation/run_link_tests"}
    /\ tf.run < MaxRuns
    /\ tv.pc = "idle"
    /\ tf' = [TfIdle EXCEPT !.pc = "testing", !.entry = tf.entry,
                            !.html_files = find_html_files(fs), !.i = 1,
                            !.run = tf.run + 1, !.previous = tf.results]
    /\ UNCHANGED <<fs, call, docs, tv, parse, server>>

\* one round of the loop of run_all_tests: _test_file, then _merge_results
TestFile ==
    /\ tf.pc = "testing"
    /\ tf.i <= Len(tf.html_files)
    /\ tf' = [tf EXCEPT
                 !.results =
                     _merge_results(@, _test_file(DocOf(docs, tf.html_files[tf.i]))),
                 !.i = @ + 1]
    /\ UNCHANGED <<fs, call, docs, tv, parse, server>>

\* the end of run_all_tests
PerformValidation ==
    /\ tf.pc = "testing"
    /\ tf.i > Len(tf.html_files)
    /\ tf' = [tf EXCEPT !.results = _perform_validation(fs, @),
                        !.pc = "validated"]
    /\ UNCHANGED <<fs, call, docs, tv, parse, server>>

\* main() reports and returns; sys.exit ends the process with that code
Main ==
    /\ tf.pc = "validated"
    /\ tf' = [tf EXCEPT
                 !.code = main(tf.results),
                 !.exit = IF tf.entry = "main" THEN main(tf.results) ELSE None,
                 !.pc = IF tf.entry = "main" THEN "exited" ELSE "child_exited"]
    /\ UNCHANGED <<fs, call, docs, tv, parse, server>>

\* tools/link-validation/run_link_tests.py: result.returncode of the child
ToolsRunLinkTests ==
    /\ tf.pc = "child_exited"
    /\ tf' = [tf EXCEPT !.exit = tf.code, !.pc = "exited"]
    /\ UNCHANGED <<fs, call, docs, tv, parse, server>>

\* run_link_tests.py at the project root: its child is the minimal
\* test_link_validation.py next to it
RootRunLinkTests ==
    /\ tf.pc = "idle"
    /\ tv.pc = "idle"
    /\ tf' = [TfIdle EXCEPT !.pc = "exited", !.entry = "run_link_tests",
                            !.code = minimal_main(fs),
                            !.exit = minimal_main(fs), !.run = 1]
    /\ UNCHANGED <<fs, call, docs, tv, parse, server>>

\* generate_link_validation_report of a LinkValidator, the one of
\* tools/link-validation or the one of link_validator.py at the project
\* root, calls validate_all_site_links
ValidateAllSiteLinks ==
    /\ tv.pc = "idle"
    /\ tf.pc \in {"idle", "exited"}
    /\ \E validator \in {"tools/link-validation/link_validator",
                          "link_validator"} :
       \E seed \in SeedsOf(validator) :
          tv' = [TvIdle EXCEPT !.pc = "validating", !.validator = validator,
                               !.seed = seed, !.html_files = html_files(fs),
                               !.i = 1, !.run = 1]
    /\ UNCHANGED <<fs, call, docs, tf, parse, server>>

\* the report is generated once more, by a new process
ValidateAllSiteLinksAgain ==
    /\ tv.pc = "done"
    /\ tv.run < MaxRuns
    /\ tf.pc = "idle"
    /\ \E seed \in SeedsOf(tv.validator) :
          tv' = [TvIdle EXCEPT !.pc = "validating", !.validator = tv.validator,
                               !.seed = seed, !.html_files = html_files(fs),
                               !.i = 1, !.run = tv.run + 1,
                               !.previous = tv.report]
    /\ UNCHANGED <<fs, call, docs, tf, parse, server>>

\* one round of the loop of validate_all_site_links
ValidateFileLinks ==
    /\ tv.pc = "validating"
    /\ tv.i <= Len(tv.html_files)
    /\ tv' = [tv EXCEPT
                 !.results =
                     Append(@, [file |-> tv.html_files[tv.i],
                                results |->
                                    IF tv.validator = "link_validator"
                                    THEN root_validate_file_links(tv.seed, fs,
                                             DocOf(docs, tv.html_files[tv.i]))
                                    ELSE validate_file_links(DefaultConfig, fs,
                                             DocOf(docs, tv.html_files[tv.i]))]),
                 !.i = @ + 1]
    /\ UNCHANGED <<fs, call, docs, tf, parse, server>>

\* the rest of generate_link_validation_report
GenerateReport ==
    /\ tv.pc = "validating"
    /\ tv.i > Len(tv.html_files)
    /\ tv' = [tv EXCEPT
                 !.report = generate_link_validation_report(fs, tv.results),
                 !.pc = "done"]
    /\ UNCHANGED <<fs, call, docs, tf, parse, server>>

Next ==
    \/ RunAllTests
    \/ RunAllTestsAgain
    \/ TestFile
    \/ PerformValidation
    \/ Main
    \/ ToolsRunLinkTests
    \/ RootRunLinkTests
    \/ ValidateAllSiteLinks
    \/ ValidateAllSiteLinksAgain
    \/ ValidateFileLinks
    \/ GenerateReport

Spec == Init /\ [][Next]_vars

(***************************************************************************)
(* Properties of the single-link calls (LinkSpec).                         *)
(***************************************************************************)

\* C1: every result of a validator, in the test framework and in the tools
\* validator, is valid if and only if it carries no error message.
C1_ValidIffNoError ==
    /\ call.op = "tf_validate" =>
          (call.is_valid <=> call.validation_error = None)
    /\ (call.op = "tools_validate" /\ ~call.out.raised) =>
          (call.out.is_valid <=> call.out.error_message = None)

\* C3: _classify_link is total and deterministic: for every URL it returns
\* one member of LinkType, the same one for the same URL whatever the
\* filesystem holds.
C3_ClassifyTotal ==
    call.op = "classify" =>
        /\ call.out \in LinkType
        /\ call.out = _classify_link(call.url)

\* The categories of the specification, in priority order, and the rule of
\* each on the lower-cased, stripped URL.
RuleCategory ==
    <<"javascript", "fragment", "external", "mailto", "apiEndpoint",
      "internalAsset", "specialRoute", "internalPage">>

RuleMatches(n, u) ==
    CASE n = 1 -> StartsWith(u, "javascript:")
      [] n = 2 -> StartsWith(u, "#")
      [] n = 3 -> \/ StartsWith(u, "http://")
                  \/ StartsWith(u, "https://")
                  \/ StartsWith(u, "//")
      [] n = 4 -> StartsWith(u, "mailto:")
      [] n = 5 -> StartsWith(u, "/api/")
      [] n = 6 -> \E ext \in FileExtensions \cup ImageExtensions :
                      EndsWith(Lower(UrlParse(u).path), ext)
      [] n = 7 -> u = "/" \/ StartsWith(u, "/gallery-data/")
      [] n = 8 -> TRUE

CategoryOf(link_type) ==
    CASE link_type = JAVASCRIPT -> "javascript"
      [] link_type = FRAGMENT -> "fragment"
      [] link_type = EXTERNAL_HTTP -> "external"
      [] link_type = EXTERNAL_MAILTO -> "mailto"
      [] link_type = API_ENDPOINT -> "apiEndpoint"
      [] link_type \in {INTERNAL_FILE, INTERNAL_IMAGE} -> "internalAsset"
      [] link_type = SPECIAL_ROUTE -> "specialRoute"
      [] link_type = INTERNAL_PAGE -> "internalPage"
      [] OTHER -> None

EarliestRule(u) == Min({n \in 1..Len(RuleCategory) : RuleMatches(n, u)})

\* C4: the classifier gives every URL the category of the earliest rule,
\* in the priority order of the specification, that the URL matches.
C4_FirstMatchWins ==
    call.op = "classify" =>
        CategoryOf(call.out) = RuleCategory[EarliestRule(Strip(Lower(call.url)))]

\* The order is kept on every URL for which the classifier returns.
C4_FirstMatchWinsWhenReturned ==
    (call.op = "classify" /\ call.out \in LinkType) =>
        CategoryOf(call.out) = RuleCategory[EarliestRule(Strip(Lower(call.url)))]

\* C5 as claimed: an internal page is valid if and only if (a) its route's
\* target exists, or (b) pages/{path}.html, (c) pages/{path}/index.html or
\* (d) {path}.html exists.
C5_AnyOfFour ==
    (call.op = "tf_validate" /\ call.link_type = INTERNAL_PAGE) =>
        (call.is_valid <=>
            \/ /\ InRoutes(call.url)
               /\ Exists(fs, LStrip(RouteTarget(call.url), {"/"}))
            \/ Exists(fs, "pages/" \o LStrip(call.url, {"/"}) \o ".html")
            \/ Exists(fs, "pages/" \o LStrip(call.url, {"/"}) \o "/index.html")
            \/ Exists(fs, LStrip(call.url, {"/"}) \o ".html"))

\* C5 amended: an internal page whose URL is a key of the routes table is
\* valid if and only if the route's target exists; any other is valid if
\* and only if {path}.html exists at the project root, or pages/{path}.html,
\* or {path}/index.html below the project root.
C5_RouteDecidesElseDirectFile ==
    (call.op = "tf_validate" /\ call.link_type = INTERNAL_PAGE) =>
        (call.is_valid <=>
            IF InRoutes(call.url)
            THEN Exists(fs, LStrip(RouteTarget(call.url), {"/"}))
            ELSE \/ Exists(fs, LStrip(call.url, {"/"}) \o ".html")
                 \/ Exists(fs, "pages/" \o LStrip(call.url, {"/"}) \o ".html")
                 \/ Exists(fs, LStrip(call.url, {"/"}) \o "/index.html"))

\* A routed page whose target is missing while pages/{path}.html exists: the
\* link is invalid.
C5_Witness ==
    /\ call.op = "tf_validate"
    /\ call.link_type = INTERNAL_PAGE
    /\ InRoutes(call.url)
    /\ ~Exists(fs, LStrip(RouteTarget(call.url), {"/"}))
    /\ Exists(fs, "pages/" \o LStrip(call.url, {"/"}) \o ".html")
    /\ ~call.is_valid

\* the URL without its query string and fragment
WithoutQueryAndFragment(url) == BeforeFirst(BeforeFirst(url, "#"), "?")

\* C6: a link checked against the filesystem is valid exactly when the same
\* link without its query string and fragment is valid, and the result
\* carries the original URL.
C6_QueryAndFragmentStripped ==
    /\ (/\ call.op = "tf_validate"
        /\ call.link_type \in {INTERNAL_PAGE, INTERNAL_FILE, INTERNAL_IMAGE}) =>
          call.is_valid =
              validate_link(fs, WithoutQueryAndFragment(call.url),
                  _classify_link(WithoutQueryAndFragment(call.url))).is_valid
    /\ (/\ call.op = "tools_validate"
        /\ ~call.out.raised
        /\ call.out.link_type \in
               {"internal", "css", "javascript", "image", "asset"}) =>
          /\ call.out.link = call.url
          /\ call.out.is_valid =
                 tools_validate_link(DefaultConfig, fs,
                     WithoutQueryAndFragment(call.url), call.source_file,
                     call.rel).is_valid

\* ^/api/image-proxy/[A-Za-z0-9_-]{10,50}$ on the whole path, or one of the
\* fixed endpoint names
ApiPathValid(path) ==
    \/ path \in api_endpoints
    \/ /\ StartsWith(path, "/api/image-proxy/")
       /\ AllIn(From(path, Len("/api/image-proxy/") + 1), FileIdChars)
       /\ Len(path) - Len("/api/image-proxy/") >= FileIdMin
       /\ Len(path) - Len("/api/image-proxy/") <= FileIdMax

\* C7: an API link is valid if and only if its path is a fixed endpoint
\* name or the whole path matches the image-proxy pattern, in the test
\* framework and in the tools validator.
C7_ApiEndpointRule ==
    /\ (call.op = "tf_validate" /\ call.link_type = API_ENDPOINT) =>
          (call.is_valid <=> ApiPathValid(UrlParse(call.url).path))
    /\ (/\ call.op = "tools_validate"
        /\ ~call.out.raised
        /\ call.out.link_type = "api") =>
          (call.out.is_valid <=> ApiPathValid(UrlParse(call.url).path))

(***************************************************************************)
(* Properties of whole runs (Spec).                                        *)
(***************************************************************************)
TfFinished == tf.pc \in {"validated", "child_exited", "exited"}

RECURSIVE CountResults(_)
CountResults(all_results) ==
    IF all_results = <<>> THEN 0
    ELSE Len(Head(all_results).results) + CountResults(Tail(all_results))

RECURSIVE CountInvalid(_)
CountInvalid(results) ==
    IF results = <<>> THEN 0
    ELSE (IF Head(results).is_valid THEN 0 ELSE 1) + CountInvalid(Tail(results))

RECURSIVE CountAllInvalid(_)
CountAllInvalid(all_results) ==
    IF all_results = <<>> THEN 0
    ELSE CountInvalid(Head(all_results).results)
             + CountAllInvalid(Tail(all_results))

\* C2: in every report total_links = valid_links + invalid_links, and
\* total_links is the number of link results collected over all documents.
C2_TotalsAddUp ==
    /\ TfFinished =>
          /\ tf.results.total_links =
                 tf.results.valid_links + tf.results.invalid_links
          /\ tf.results.total_links = Len(tf.results.all_links)
          /\ tf.results.invalid_links = CountInvalid(tf.results.all_links)
    /\ tv.pc = "done" =>
          /\ tv.report.summary.total_links =
                 tv.report.summary.valid_links
                     + tv.report.summary.invalid_links
          /\ tv.report.summary.total_links = CountResults(tv.results)
          /\ tv.report.summary.invalid_links = CountAllInvalid(tv.results)

\* Both aggregators have reported on a site with valid and invalid links.
C2_Witness ==
    /\ tf.pc = "exited"
    /\ tf.results.valid_links > 0
    /\ tf.results.invalid_links > 0
    /\ tv.pc = "done"
    /\ tv.report.summary.valid_links > 0
    /\ tv.report.summary.invalid_links > 0

\* the results of one document in the test framework's list
OfDocument(links, name) == SelectSeq(links, LAMBDA l : l.source_file = name)

\* the entry of one document in the tools validator's results
EntryOf(all_results, name) ==
    all_results[CHOOSE k \in 1..Len(all_results) : all_results[k].file = name]

\* C8: an unreadable document yields exactly one synthetic invalid result
\* of link type "file", counted as invalid, and every other document's
\* results are those of that document alone.
C8_UnreadableDocumentRecorded ==
    /\ (TfFinished /\ tf.entry # "run_link_tests") =>
          \A k \in 1..Len(docs) :
              IF docs[k].readable
              THEN OfDocument(tf.results.all_links, docs[k].name) =
                       _perform_validation(fs, _test_file(docs[k])).all_links
              ELSE /\ Len(OfDocument(tf.results.all_links, docs[k].name)) = 1
                   /\ Len(OfDocument(tf.results.broken_links, docs[k].name)) = 1
                   /\ OfDocument(tf.results.all_links, docs[k].name)[1].link_type
                          = "file"
    /\ tv.pc = "done" =>
          \A k \in 1..Len(docs) :
              IF docs[k].readable
              THEN EntryOf(tv.results, docs[k].name).results =
                       validate_file_links(DefaultConfig, fs, docs[k])
              ELSE /\ Len(EntryOf(tv.results, docs[k].name).results) = 1
                   /\ EntryOf(tv.results, docs[k].name).results[1].link_type
                          = "file"
                   /\ ~EntryOf(tv.results, docs[k].name).results[1].is_valid
                   /\ \E j \in 1..Len(tv.report.issues) :
                          /\ tv.report.issues[j].file = docs[k].name
                          /\ tv.report.issues[j].type = "file"

\* the link elements of a document that the parser records
Recorded(hrefs) ==
    SelectSeq(hrefs, LAMBDA value :
        /\ value # ""
        /\ Strip(value) \notin {"", "#", "javascript:void(0)", "javascript:;"}
        /\ ~_is_template_variable(Strip(value)))

\* C9: every link found in a readable document ends with a result of its
\* own, valid or invalid with an explanation, and both aggregators return.
C9_EveryLinkHasItsResult ==
    /\ (TfFinished /\ tf.entry # "run_link_tests") =>
          \A k \in 1..Len(docs) :
              docs[k].readable =>
                  \A j \in 1..Len(Recorded(docs[k].links)) :
                      \E i \in 1..Len(tf.results.all_links) :
                          /\ tf.results.all_links[i].source_file = docs[k].name
                          /\ tf.results.all_links[i].url =
                                 Strip(Recorded(docs[k].links)[j])
                          /\ tf.results.all_links[i].is_valid \in BOOLEAN
                          /\ ~tf.results.all_links[i].is_valid =>
                                 tf.results.all_links[i].validation_error # None
    /\ tv.pc = "done" =>
          \A k \in 1..Len(docs) :
              docs[k].readable =>
                  \A j \in 1..Len(extract_links_from_html(docs[k].links)) :
                      \E i \in 1..Len(EntryOf(tv.results, docs[k].name).results) :
                          /\ EntryOf(tv.results, docs[k].name).results[i].link =
                                 extract_links_from_html(docs[k].links)[j]
                          /\ ~EntryOf(tv.results, docs[k].name).results[i].is_valid =>
                                 EntryOf(tv.results, docs[k].name).results[i]
                                     .error_message # None

\* C10: a run exits with 0 if and only if the site has no failing link and
\* with 1 otherwise; main() returns 1 exactly when invalid_links > 0 and
\* the wrappers return the code of main().
C10_ExitStatus ==
    /\ tf.pc \in {"child_exited", "exited"} /\ tf.entry # "run_link_tests" =>
          (tf.code = 1 <=> tf.results.invalid_links > 0)
    /\ tf.pc = "exited" =>
          /\ tf.exit \in {0, 1}
          /\ tf.exit = 0 <=> run_all_tests(fs, docs).invalid_links = 0
          /\ tf.exit = main(run_all_tests(fs, docs))

(***************************************************************************)
(* Runs repeated over the unchanged site.                                  *)
(***************************************************************************)

\* C11: a second run of an aggregator over the unchanged documents and
\* files reports what the first run reported: the same totals, the same
\* results of every document in the same order, the same issues.
C11_SecondRunIdentical ==
    /\ (TfFinished /\ tf.run >= 2) => tf.results = tf.previous
    /\ (tv.pc = "done" /\ tv.run >= 2) => tv.report = tv.previous

\* C12: when no document is found, the aggregator returns normally with
\* total_links = valid_links = invalid_links = 0, no issue and a validation
\* rate of 0, and the run is a success (exit code 0).
C12_EmptyDocumentSet ==
    /\ (TfFinished /\ tf.entry # "run_link_tests" /\ tf.html_files = <<>>) =>
          /\ tf.results.total_links = 0
          /\ tf.results.valid_links = 0
          /\ tf.results.invalid_links = 0
          /\ tf.results.broken_links = <<>>
          /\ tf.pc \in {"child_exited", "exited"} => tf.code = 0
          /\ tf.pc = "exited" => tf.exit = 0
    /\ (tv.pc = "done" /\ tv.html_files = <<>>) =>
          /\ tv.report.summary.total_links = 0
          /\ tv.report.summary.valid_links = 0
          /\ tv.report.summary.invalid_links = 0
          /\ tv.report.summary.validation_rate = 0
          /\ tv.report.issues = <<>>
          /\ tv.report.detailed_results = <<>>

\* Both aggregators have finished a run over a project without documents.
C12_Witness ==
    /\ tf.pc = "exited"
    /\ tf.entry # "run_link_tests"
    /\ tf.html_files = <<>>
    /\ tv.pc = "done"
    /\ tv.html_files = <<>>

(***************************************************************************)
(* Skip rules of the tools validator.                                      *)
(***************************************************************************)

\* the links of a readable document that the skip rules exempt
SkippedLinks(document) ==
    {extract_links_from_html(document.links)[j] :
         j \in {i \in 1..Len(extract_links_from_html(document.links)) :
                   _should_skip_link(DefaultConfig,
                       extract_links_from_html(document.links)[i], "")}}

\* the results of a document hold the link as a skipped, valid one
CountedAsSkipped(results, link) ==
    \E i \in 1..Len(results) :
        /\ results[i].link = link
        /\ results[i].link_type = "skipped"
        /\ results[i].is_valid

\* C13: a link the skip rules of the tools validator exempt is never
\* dropped: the report holds a valid result of type "skipped" for it, and
\* total_links and valid_links count that result.
C13_SkippedLinksCounted ==
    (tv.pc = "done" /\ tv.validator = "tools/link-validation/link_validator") =>
        /\ \A k \in 1..Len(docs) :
              docs[k].readable =>
                  \A link \in SkippedLinks(docs[k]) :
                      CountedAsSkipped(
                          EntryOf(tv.report.detailed_results, docs[k].name).results,
                          link)
        /\ tv.report.summary.total_links =
               CountResults(tv.report.detailed_results)
        /\ tv.report.summary.valid_links =
               tv.report.summary.total_links
                   - CountAllInvalid(tv.report.detailed_results)

\* C13, for the documents none of whose links makes validate_link raise
C13_SkippedLinksCountedWhenNoLinkRaises ==
    (tv.pc = "done" /\ tv.validator = "tools/link-validation/link_validator") =>
        \A k \in 1..Len(docs) :
            (/\ docs[k].readable
             /\ \A j \in 1..Len(docs[k].links) :
                   ~tools_validate_link(DefaultConfig, fs, docs[k].links[j],
                                        docs[k].name, "").raised) =>
                \A link \in SkippedLinks(docs[k]) :
                    CountedAsSkipped(
                        EntryOf(tv.report.detailed_results, docs[k].name).results,
                        link)

\* C13, for one call of validate_link: a non-empty link the skip rules
\* exempt is returned valid, with type "skipped"
C13_SkippedLinkIsValid ==
    (/\ call.op = "tools_validate"
     /\ call.url # ""
     /\ _should_skip_link(DefaultConfig, call.url, call.rel)) =>
        /\ ~call.out.raised
        /\ call.out.is_valid
        /\ call.out.link_type = "skipped"

(***************************************************************************)
(* Extraction.                                                             *)
(***************************************************************************)

\* a URL the extractor is to leave out
Placeholder(url) ==
    \/ url = ""
    \/ url = "#"
    \/ StartsWith(url, "javascript:")
    \/ StartsWith(url, "data:")

\* C14: the extractor emits no occurrence whose URL is empty, is "#", or
\* starts with "javascript:" or "data:"; neither _add_link of the test
\* framework nor extract_links_from_html of the tools validator does.
C14_NoPlaceholderEmitted ==
    /\ call.op = "handle_starttag" =>
          \A i \in 1..Len(call.out.links) : ~Placeholder(call.out.links[i].url)
    /\ (/\ call.op = "extract_links_from_html"
        /\ call.validator = "tools/link-validation/link_validator") =>
          \A i \in 1..Len(call.out) : ~Placeholder(call.out[i])

(***************************************************************************)
(* External links of the tools validator.                                  *)
(***************************************************************************)

\* the host of a network location: without user information and port, in
\* lower case
HostOf(netloc) ==
    LET NoUser(n) == IF Contains(n, "@") THEN AfterFirst(n, "@") ELSE n
    IN  Lower(BeforeFirst(NoUser(netloc), ":"))

\* the social-media domains a host is, or is a subdomain of
SocialDomainsOf(host) ==
    {i \in 1..Len(social_domains) :
        \/ host = social_domains[i]
        \/ EndsWith(host, "." \o social_domains[i])}

\* C15: in the tools validator an http or https link to a social-media
\* domain, or to a subdomain of one, is valid if and only if it matches the
\* platform's URL pattern, and is otherwise invalid with the error
\* "Invalid <domain> URL format"; an http or https link to any other host is
\* valid if and only if the host is not empty.
C15_SocialMediaLinks ==
    (/\ call.op = "tools_validate"
     /\ call.url # ""
     /\ ~_should_skip_link(DefaultConfig, call.url, call.rel)
     /\ ~UrlParse(Strip(call.url)).raised
     /\ UrlParse(Strip(call.url)).scheme \in {"http", "https"}) =>
        LET Holds(host) ==
                IF SocialDomainsOf(host) # {}
                THEN \E i \in SocialDomainsOf(host) :
                        /\ call.out.is_valid <=>
                               social_pattern_match(social_domains[i], call.url)
                        /\ ~call.out.is_valid =>
                               call.out.error_message =
                                   "Invalid " \o social_domains[i] \o " URL format"
                ELSE call.out.is_valid <=> host # ""
        IN  /\ ~call.out.raised
            /\ call.out.link_type = "external"
            /\ Holds(HostOf(UrlParse(Strip(call.url)).netloc))

\* C15, for the links whose network location is the host alone (no user
\* information, no port) and holds "www." at most as its first label
C15_SocialMediaLinksOfPlainHosts ==
    (/\ call.op = "tools_validate"
     /\ call.url # ""
     /\ ~_should_skip_link(DefaultConfig, call.url, call.rel)
     /\ ~UrlParse(Strip(call.url)).raised
     /\ UrlParse(Strip(call.url)).scheme \in {"http", "https"}
     /\ Lower(UrlParse(Strip(call.url)).netloc) =
            HostOf(UrlParse(Strip(call.url)).netloc)
     /\ ~Contains(From(HostOf(UrlParse(Strip(call.url)).netloc), 2), "www.")) =>
        LET Holds(host) ==
                IF SocialDomainsOf(host) # {}
                THEN \E i \in SocialDomainsOf(host) :
                        /\ call.out.is_valid <=>
                               social_pattern_match(social_domains[i], call.url)
                        /\ ~call.out.is_valid =>
                               call.out.error_message =
                                   "Invalid " \o social_domains[i] \o " URL format"
                ELSE call.out.is_valid <=> host # ""
        IN  /\ ~call.out.raised
            /\ call.out.link_type = "external"
            /\ Holds(HostOf(UrlParse(Strip(call.url)).netloc))

(***************************************************************************)
(* Mailto links.                                                           *)
(***************************************************************************)

\* ^[\w.%+-]+@[\w.-]+\.[A-Za-z]{2,}$
AddressMatch(s) ==
    LET n == Span(s, WordChars \cup {".", "%", "+", "-"}) IN
    /\ n >= 1
    /\ Len(s) > n
    /\ SubSeq(s, n + 1, n + 1) = "@"
    /\ LET d == From(s, n + 2) IN
       /\ AllIn(d, WordChars \cup {".", "-"})
       /\ \E k \in 2..Len(d) :
             /\ SubSeq(d, k, k) = "."
             /\ Len(d) - k >= 2
             /\ AllIn(From(d, k + 1), Letters)

\* what remains of a mailto link without its first seven characters
\* ("mailto:") and without everything from the first "?"
AddressOf(url) == BeforeFirst(From(Strip(url), 8), "?")

\* C16: a link of the mailto category is valid if and only if its address,
\* the link without "mailto:" and without everything from the first "?",
\* matches ^[\w.%+-]+@[\w.-]+\.[A-Za-z]{2,}$; in the test framework and in
\* the tools validator.
C16_MailtoAddress ==
    /\ (call.op = "tf_validate" /\ call.link_type = EXTERNAL_MAILTO) =>
          (call.is_valid <=> AddressMatch(AddressOf(call.url)))
    /\ (/\ call.op = "tools_validate"
        /\ call.url # ""
        /\ ~_should_skip_link(DefaultConfig, call.url, call.rel)
        /\ ~UrlParse(Strip(call.url)).raised
        /\ UrlParse(Strip(call.url)).scheme = "mailto") =>
          /\ call.out.link_type = "mailto"
          /\ call.out.is_valid <=> AddressMatch(AddressOf(call.url))

(***************************************************************************)
(* Special routes and assets.                                              *)
(***************************************************************************)

\* /gallery-data/<name>.json, without query and fragment
GalleryData(url) ==
    /\ StartsWith(url, "/gallery-data/")
    /\ EndsWith(url, ".json")
    /\ Len(url) > Len("/gallery-data/.json")
    /\ ~Contains(url, "?")
    /\ ~Contains(url, "#")

\* C17: classified and then validated by the test framework, the link "/"
\* is valid if and only if index.html exists, and a link
\* /gallery-data/<name>.json is valid if and only if
\* public/gallery-data/<name>.json exists.
C17_SpecialRoutes ==
    call.op = "tf_validate" =>
        /\ call.url = "/" => (call.is_valid <=> Exists(fs, "index.html"))
        /\ GalleryData(call.url) =>
              (call.is_valid <=> Exists(fs, "public" \o call.url))

\* C17 for the link "/" alone
C17_RootRoute ==
    (call.op = "tf_validate" /\ call.url = "/") =>
        /\ call.link_type = SPECIAL_ROUTE
        /\ call.is_valid <=> Exists(fs, "index.html")

\* the path of an asset link: the link without everything from the first
\* "?" and without its leading slashes
AssetPath(url) == LStrip(BeforeFirst(url, "?"), {"/"})

\* the path, or a file of its name, exists in a static directory
InStaticDir(files, path) ==
    \E i \in 1..Len(static_dirs) :
        \/ Exists(files, static_dirs[i] \o "/" \o path)
        \/ Exists(files, static_dirs[i] \o "/" \o Basename(path))


\* the tools validator's result on an asset link (/css/, /js/ or /images/)
\* agrees with the files: valid if the path exists under the project root,
\* invalid if it exists neither there nor in a static directory
ToolsAssetAgrees ==
    (/\ call.op = "tools_validate"
     /\ ~_should_skip_link(DefaultConfig, call.url, call.rel)
     /\ \E asset_type \in {"css", "js", "images"} :
           StartsWith(call.url, "/" \o asset_type \o "/")
     /\ ~Contains(call.url, "#")
     /\ AssetPath(call.url) # "") =>
        /\ ~call.out.raised
        /\ Exists(fs, AssetPath(call.url)) => call.out.is_valid
        /\ call.out.is_valid =>
              \/ Exists(fs, AssetPath(call.url))
              \/ InStaticDir(fs, AssetPath(call.url))

\* C18: an asset link (a file or an image) whose path, the link without its
\* query string, exists under the project root is valid, and one whose path
\* exists neither there nor in a static directory is invalid.
C18_AssetLinks ==
    /\ (/\ call.op = "tf_validate"
        /\ call.link_type \in {INTERNAL_FILE, INTERNAL_IMAGE}
        /\ ~Contains(call.url, "#")
        /\ AssetPath(call.url) # "") =>
           /\ Exists(fs, AssetPath(call.url)) => call.is_valid
           /\ call.is_valid =>
                 \/ Exists(fs, AssetPath(call.url))
                 \/ InStaticDir(fs, AssetPath(call.url))
    /\ ToolsAssetAgrees

\* C18 for the asset links that are not images with a query string
C18_AssetLinksButImagesWithQuery ==
    (/\ call.op = "tf_validate"
     /\ call.link_type \in {INTERNAL_FILE, INTERNAL_IMAGE}
     /\ ~Contains(call.url, "#")
     /\ AssetPath(call.url) # ""
     /\ ~(call.link_type = INTERNAL_IMAGE /\ Contains(call.url, "?"))) =>
        /\ Exists(fs, AssetPath(call.url)) => call.is_valid
        /\ call.is_valid =>
              \/ Exists(fs, AssetPath(call.url))
              \/ InStaticDir(fs, AssetPath(call.url))

\* C18 for the tools validator
C18_ToolsAssetLinks == ToolsAssetAgrees

(***************************************************************************)
(* Relative links of the tools validator.                                  *)
(***************************************************************************)

\* a link without scheme that is neither rooted nor an anchor
Relative(url) ==
    /\ Strip(url) # ""
    /\ ~UrlParse(Strip(url)).raised
    /\ UrlParse(Strip(url)).scheme = ""
    /\ ~StartsWith(Strip(url), "/")
    /\ ~StartsWith(Strip(url), "#")

ConfigError(config_file) ==
    \/ config_file.state \in {"missing", "unreadable", "invalid_json"}
    \/ config_file.json.shape # "object"

\* C20: on every configuration error the tools LinkValidator is constructed
\* without an exception and with its default configuration, and no later
\* validate_link call raises because of the configuration.
C20_ConfigFallback ==
    /\ (call.op = "new_link_validator" /\ ConfigError(call.config_file)) =>
          /\ ~call.out.raised
          /\ call.out.config = DefaultConfig
    /\ (/\ call.op = "configured_validate"
        /\ ConfigError(call.config_file)
        /\ ~UrlParse(Strip(call.url)).raised) =>
          /\ call.config = DefaultConfig
          /\ ~call.out.raised

\* C20 for a configuration file that is missing or is not JSON
C20_FallbackWhenMissingOrNotJson ==
    /\ (/\ call.op = "new_link_validator"
        /\ call.config_file.state \in {"missing", "invalid_json"}) =>
          /\ ~call.out.raised
          /\ call.out.config = DefaultConfig
    /\ (/\ call.op = "configured_validate"
        /\ call.config_file.state \in {"missing", "invalid_json"}
        /\ ~UrlParse(Strip(call.url)).raised) =>
          /\ call.config = DefaultConfig
          /\ ~call.out.raised

(***************************************************************************)
(* Anchor links of the tools validator.                                    *)
(***************************************************************************)

\* the text of a fragment link after its one leading '#'
AnchorText(link) == From(link, 2)

\* the link reached _validate_anchor_link
AnchorCall ==
    /\ call.op = "tools_validate"
    /\ StartsWith(call.url, "#")
    /\ ~call.out.raised
    /\ call.out.link_type = "anchor"

\* C21: _validate_anchor_link reports a fragment link valid exactly if the
\* text after its one leading '#' is empty or matches ^[A-Za-z][\w-]*$, and
\* reports every other fragment link invalid with the error "Invalid anchor
\* format".
C21_AnchorFormat ==
    AnchorCall =>
        /\ call.out.is_valid <=>
              \/ AnchorText(call.url) = ""
              \/ AnchorMatch(AnchorText(call.url))
        /\ ~call.out.is_valid =>
              call.out.error_message = "Invalid anchor format"

\* C21 for the fragment links that start with one '#' only
C21_AnchorFormatOfOneHash ==
    (AnchorCall /\ ~StartsWith(call.url, "##")) =>
        /\ call.out.is_valid <=>
              \/ AnchorText(call.url) = ""
              \/ AnchorMatch(AnchorText(call.url))
        /\ ~call.out.is_valid =>
              call.out.error_message = "Invalid anchor format"

(***************************************************************************)
(* javascript: links.                                                      *)
(***************************************************************************)

\* the scheme of the link is javascript:
JavascriptLink(url) == StartsWith(Lower(Strip(url)), "javascript:")

\* C22: a link whose scheme is javascript: is reported valid by the
\* validate_link of the test framework and by the validate_link of the
\* tools validator, with or without a source file, whatever files exist.
C22_JavascriptAlwaysValid ==
    /\ (call.op = "tf_validate" /\ JavascriptLink(call.url)) =>
          call.is_valid
    /\ (call.op = "tools_validate" /\ JavascriptLink(call.url)) =>
          /\ ~call.out.raised
          /\ call.out.is_valid

\* C22 for the validate_link of the test framework
C22_JavascriptValidInTestFramework ==
    (call.op = "tf_validate" /\ JavascriptLink(call.url)) =>
        /\ call.link_type = JAVASCRIPT
        /\ call.is_valid
        /\ call.validation_error = None

(***************************************************************************)
(* tools/link-validation/html_link_parser.py: ALCBFHTMLParser,             *)
(* LinkCategorizer and HTMLLinkExtractor.                                  *)
(***************************************************************************)

\* LinkInfo of html_link_parser.py
ParsedLinkInfo(href, text, source_file, line_number, tag, context) ==
    [href |-> href, text |-> text, source_file |-> source_file,
     line_number |-> line_number, tag |-> tag, context |-> context,
     category |-> "", is_valid |-> TRUE, error_message |-> ""]

ParseResults ==
    [links |-> <<>>, navigation_links |-> <<>>, content_links |-> <<>>,
     asset_links |-> <<>>, external_links |-> <<>>, anchor_links |-> <<>>,
     email_links |-> <<>>, social_links |-> <<>>]

ALCBFHTMLParser ==
    [links |-> <<>>, current_line |-> 1, in_navigation |-> FALSE,
     in_header |-> FALSE, in_footer |-> FALSE, in_main |-> FALSE,
     tag_stack |-> <<>>, raised |-> FALSE]

\* "|".join(contexts)
RECURSIVE Join(_, _)
Join(parts, sep) ==
    IF parts = <<>> THEN ""
    ELSE IF Len(parts) = 1 THEN parts[1]
    ELSE parts[1] \o sep \o Join(Tail(parts), sep)

_get_current_context(parser) ==
    LET stack == parser.tag_stack
        Has(tag) == \E i \in 1..Len(stack) : stack[i] = tag
        If(cond, name) == IF cond THEN <<name>> ELSE <<>>
        contexts ==
            If(parser.in_header, "header")
            \o If(parser.in_navigation, "navigation")
            \o If(parser.in_main, "main")
            \o If(parser.in_footer, "footer")
            \o If(Has("nav"), "nav")
            \o If(\E i \in 1..Len(stack) :
                     /\ i > Len(stack) - 3
                     /\ stack[i] \in {"ul", "ol", "li"}, "list")
            \o If(Has("form"), "form")
    IN  IF contexts = <<>> THEN "body" ELSE Join(contexts, "|")

\* ALCBFHTMLParser.handle_starttag
alcbf_handle_starttag(parser, tag, attrs, file_path) ==
    LET pushed == [parser EXCEPT
                      !.tag_stack = Append(@, tag),
                      !.in_navigation = IF tag \in {"nav", "navigation"}
                                        THEN TRUE ELSE @,
                      !.in_header = IF tag = "header" THEN TRUE ELSE @,
                      !.in_footer = IF tag = "footer" THEN TRUE ELSE @,
                      !.in_main = IF tag = "main" THEN TRUE ELSE @]
        Link(href, text) ==
            ParsedLinkInfo(href, text, file_path, parser.current_line, tag,
                           _get_current_context(pushed))
        hrefs == IF HasAttr(attrs, "href")
                 THEN <<Link(AttrGet(attrs, "href"), "")>> ELSE <<>>
        srcs == IF HasAttr(attrs, "src")
                THEN <<Link(AttrGet(attrs, "src"),
                            IF HasAttr(attrs, "alt")
                            THEN AttrGet(attrs, "alt") ELSE "")>>
                ELSE <<>>
        actions == IF tag = "form" /\ HasAttr(attrs, "action")
                   THEN <<Link(AttrGet(attrs, "action"), "")>> ELSE <<>>
    IN  [pushed EXCEPT !.links = @ \o hrefs \o srcs \o actions]

\* ALCBFHTMLParser.handle_endtag
alcbf_handle_endtag(parser, tag) ==
    [parser EXCEPT
        !.tag_stack = IF @ = <<>> THEN @ ELSE SubSeq(@, 1, Len(@) - 1),
        !.in_navigation = IF tag \in {"nav", "navigation"} THEN FALSE ELSE @,
        !.in_header = IF tag = "header" THEN FALSE ELSE @,
        !.in_footer = IF tag = "footer" THEN FALSE ELSE @,
        !.in_main = IF tag = "main" THEN FALSE ELSE @]

\* ALCBFHTMLParser.handle_data
alcbf_handle_data(parser, data) ==
    LET clean_data == Strip(data)
        n == Len(parser.links)
        named ==
            IF /\ clean_data # ""
               /\ n > 0
               /\ parser.links[n].text \in {"", None}
               /\ parser.links[n].line_number = parser.current_line
            THEN [parser EXCEPT !.links[n].text = clean_data]
            ELSE parser
    IN  [named EXCEPT !.current_line = @ + Count(data, "\n")]

\* LinkCategorizer
categorizer_social_domains ==
    {"instagram.com", "facebook.com", "twitter.com", "x.com", "youtube.com",
     "tiktok.com", "linkedin.com", "whatsapp.com", "chat.whatsapp.com"}

asset_extensions ==
    {".css", ".js", ".png", ".jpg", ".jpeg", ".gif", ".svg", ".ico", ".pdf",
     ".woff", ".woff2", ".ttf", ".otf", ".mp3", ".mp4", ".webp", ".avif"}

nav_links ==
    {"/home", "/about", "/artists", "/schedule", "/gallery", "/tickets",
     "/donations"}

\* raised by None.lower()
AttributeError == "AttributeError"

\* LinkCategorizer.categorize_link: the category, or AttributeError for a
\* link whose href is None
categorize_link(link) ==
    IF link.href = None THEN AttributeError
    ELSE LET href == Lower(link.href) IN
         IF StartsWith(href, "mailto:") THEN "email"
         ELSE IF StartsWith(href, "#") THEN "anchor"
         ELSE IF StartsWith(href, "http://") \/ StartsWith(href, "https://")
         THEN LET parsed == UrlParse(link.href) IN
              IF parsed.raised THEN "external"
              ELSE IF \E social \in categorizer_social_domains :
                          Contains(Lower(parsed.netloc), social)
              THEN "social"
              ELSE "external"
         ELSE IF \E ext \in asset_extensions : EndsWith(href, ext)
         THEN "asset"
         ELSE IF /\ Contains(link.context, "header")
                    \/ Contains(link.context, "nav")
                 /\ link.href \in nav_links
         THEN "navigation"
         ELSE IF Contains(link.context, "footer")
         THEN IF StartsWith(link.href, "mailto:") THEN "email"
              ELSE IF \/ StartsWith(link.href, "http://")
                      \/ StartsWith(link.href, "https://")
              THEN "social"
              ELSE "navigation"
         ELSE "content"

\* the list of ParseResults that holds the links of a category
ListOf(category) ==
    CASE category = "navigation" -> "navigation_links"
      [] category = "content" -> "content_links"
      [] category = "asset" -> "asset_links"
      [] category = "external" -> "external_links"
      [] category = "anchor" -> "anchor_links"
      [] category = "email" -> "email_links"
      [] category = "social" -> "social_links"

\* LinkCategorizer.categorize_all: the results, and whether
\* categorize_link has raised
categorize_all(links) ==
    LET RECURSIVE Each(_, _)
        Each(results, k) ==
            IF k > Len(links) THEN [raised |-> FALSE, results |-> results]
            ELSE LET category == categorize_link(links[k]) IN
                 IF category = AttributeError
                 THEN [raised |-> TRUE, results |-> results]
                 ELSE LET link == [links[k] EXCEPT !.category = category] IN
                      Each([results EXCEPT
                               !.links[k] = link,
                               ![ListOf(category)] = Append(@, link)],
                           k + 1)
    IN  Each([ParseResults EXCEPT !.links = links], 1)

\* the results of HTMLLinkExtractor.parse_file when an exception is caught
ErrorResults(file_path, error_message) ==
    [ParseResults EXCEPT
        !.links = <<[ParsedLinkInfo("", "", file_path, 0, "", "") EXCEPT
                        !.is_valid = FALSE,
                        !.error_message = error_message]>>]

\* HTMLLinkExtractor.parse_file once the parser has read the file
parse_file(file_path, parser) ==
    LET categorized == categorize_all(parser.links) IN
    IF categorized.raised
    THEN ErrorResults(file_path,
             "'NoneType' object has no attribute 'lower'")
    ELSE categorized.results

\* HTMLLinkExtractor.parse_project: the results of a file are added
Merge(all_results, file_results) ==
    [name \in DOMAIN all_results |-> all_results[name] \o file_results[name]]

\* ParseResults.get_external_domains
get_external_domains(results) ==
    {UrlParse(results.external_links[i].href).netloc :
        i \in {j \in 1..Len(results.external_links) :
                  /\ ~UrlParse(results.external_links[j].href).raised
                  /\ UrlParse(results.external_links[j].href).netloc # ""}}

\* HTMLLinkExtractor.get_link_analysis; external_domains is a list made of
\* a set, given here as the set
get_link_analysis(results) ==
    [total_links |-> Len(results.links),
     unique_hrefs |->
        Cardinality({results.links[i].href : i \in 1..Len(results.links)}),
     categories |->
        [navigation |-> Len(results.navigation_links),
         content |-> Len(results.content_links),
         asset |-> Len(results.asset_links),
         external |-> Len(results.external_links),
         anchor |-> Len(results.anchor_links),
         email |-> Len(results.email_links),
         social |-> Len(results.social_links)],
     external_domains |-> get_external_domains(results),
     files_parsed |->
        Cardinality({results.links[i].source_file :
                        i \in 1..Len(results.links)}),
     errors |-> SelectSeq(results.links, LAMBDA link : ~link.is_valid)]

(***************************************************************************)
(* An HTML parser reading a document.  html.parser.HTMLParser.feed cuts    *)
(* the text into start tags, end tags, text, comments and declarations and *)
(* calls the handler of each; the parsers of the repository override some  *)
(* of the handlers.  The document read so far is the sequence of these     *)
(* items; lines is the number of newline characters in the text of an      *)
(* item.                                                                   *)
(***************************************************************************)
StartTag(tag, attrs, lines) ==
    [kind |-> "starttag", tag |-> tag, attrs |-> attrs, data |-> "",
     lines |-> lines]

EndTag(tag) ==
    [kind |-> "endtag", tag |-> tag, attrs |-> <<>>, data |-> "", lines |-> 0]

Data(data) ==
    [kind |-> "data", tag |-> "", attrs |-> <<>>, data |-> data,
     lines |-> Count(data, "\n")]

Comment(lines) ==
    [kind |-> "comment", tag |-> "", attrs |-> <<>>, data |-> "",
     lines |-> lines]

Declaration(lines) ==
    [kind |-> "decl", tag |-> "", attrs |-> <<>>, data |-> "", lines |-> lines]

\* how many items a document has at most
MaxTokens == 4

\* the items of the documents given to LinkExtractorParser
ExtractorTokens ==
    {StartTag("a", <<<<"href", "/about">>>>, 0),
     StartTag("a", <<<<"class", "btn">>, <<"href", "/tickets">>>>, 1),
     StartTag("source", <<<<"srcset", "a.png 1x, b.png 2x">>>>, 0),
     StartTag("source", <<<<"src", "v.mp4">>,
                          <<"srcset", " a.png 480w,, b.png ">>>>, 0),
     StartTag("img", <<<<"src", "a.png">>,
                       <<"srcset", "a.png 1x, b.png 2x">>>>, 0),
     StartTag("p", <<>>, 0),
     EndTag("a"),
     Data("Home"), Data("\n"),
     Comment(1), Declaration(0)}

\* the items of the documents given to ALCBFHTMLParser; the second a
\* element has an href attribute without value
ParserTokens ==
    {StartTag("nav", <<>>, 0),
     EndTag("nav"),
     StartTag("img", <<<<"src", "/images/logo.png">>, <<"alt", "Logo">>>>, 0),
     StartTag("a", <<<<"href", "/about">>>>, 0),
     StartTag("a", <<<<"href", None>>>>, 0),
     StartTag("a", <<<<"href", "https://instagram.com/alocubano">>>>, 0),
     EndTag("a"),
     Data("About"), Data("\n")}

\* the HTML files that parse_project finds
ProjectFiles == {<<"index.html">>, <<"index.html", "pages/about.html">>}

\* the number of newline characters in the items of a document
RECURSIVE Newlines(_)
Newlines(document) ==
    IF document = <<>> THEN 0
    ELSE Head(document).lines + Newlines(Tail(document))

ParseInit ==
    /\ fs = {}
    /\ call = NoCall
    /\ docs = <<>>
    /\ tf = TfIdle
    /\ tv = TvIdle
    /\ parse = ParseIdle
    /\ server = ServerIdle

\* parser = LinkExtractorParser(source_file); parser.feed(content) begins
NewLinkExtractorParser ==
    /\ parse.pc = "idle"
    /\ parse' = [pc |-> "feeding", parser_class |-> "LinkExtractorParser",
                 source_file |-> "index.html", document |-> <<>>,
                 parser |-> LinkExtractorParser, read |-> 0,
                 html_files |-> <<>>, i |-> 0, file_results |-> None,
                 all_results |-> None, analysis |-> None]
    /\ UNCHANGED <<fs, call, docs, tf, tv, server>>

\* the items a parser of this class is given
TokensOf(parser_class) ==
    IF parser_class = "LinkExtractorParser" THEN ExtractorTokens
    ELSE ParserTokens

\* feed has more to read: the documents of a project have at most
\* MaxTokens items together
Feeding ==
    /\ parse.pc = "feeding"
    /\ parse.read + Len(parse.document) < MaxTokens

\* the parser after the handler of the item has run
Handled(token) ==
    IF parse.parser_class = "LinkExtractorParser"
    THEN IF token.kind = "starttag"
         THEN handle_starttag(parse.parser, token.tag, token.attrs,
                              parse.source_file)
         ELSE IF token.kind = "data"
         THEN handle_data(parse.parser, token.data)
         ELSE parse.parser
    ELSE IF token.kind = "starttag"
         THEN alcbf_handle_starttag(parse.parser, token.tag, token.attrs,
                                    parse.source_file)
         ELSE IF token.kind = "endtag"
         THEN alcbf_handle_endtag(parse.parser, token.tag)
         ELSE IF token.kind = "data"
         THEN alcbf_handle_data(parse.parser, token.data)
         ELSE parse.parser

Read(token) ==
    parse' = [parse EXCEPT !.document = Append(@, token),
                           !.parser = Handled(token)]

\* HTMLParser.parse_starttag: a start tag is read, handle_starttag is called
ParseStartTag ==
    /\ Feeding
    /\ \E token \in TokensOf(parse.parser_class) :
          /\ token.kind = "starttag"
          /\ Read(token)
    /\ UNCHANGED <<fs, call, docs, tf, tv, server>>

\* HTMLParser.parse_endtag: an end tag is read, handle_endtag is called
ParseEndTag ==
    /\ Feeding
    /\ \E token \in TokensOf(parse.parser_class) :
          /\ token.kind = "endtag"
          /\ Read(token)
    /\ UNCHANGED <<fs, call, docs, tf, tv, server>>

\* HTMLParser.goahead: the text up to the next tag is read, handle_data is
\* called with it
HandleData ==
    /\ Feeding
    /\ IF parse.document = <<>> THEN TRUE
       ELSE parse.document[Len(parse.document)].kind # "data"
    /\ \E token \in TokensOf(parse.parser_class) :
          /\ token.kind = "data"
          /\ Read(token)
    /\ UNCHANGED <<fs, call, docs, tf, tv, server>>

\* HTMLParser.parse_comment / parse_html_declaration: a comment or a
\* declaration is read; no parser of the repository overrides its handler
ParseComment ==
    /\ Feeding
    /\ \E token \in TokensOf(parse.parser_class) :
          /\ token.kind \in {"comment", "decl"}
          /\ Read(token)
    /\ UNCHANGED <<fs, call, docs, tf, tv, server>>

\* the text has been read to its end: _test_file takes parser.links
EndOfFeed ==
    /\ parse.pc = "feeding"
    /\ parse.parser_class = "LinkExtractorParser"
    /\ parse' = [parse EXCEPT !.pc = "done"]
    /\ UNCHANGED <<fs, call, docs, tf, tv, server>>

\* HTMLLinkExtractor.parse_project finds the HTML files
ParseProject ==
    /\ parse.pc = "idle"
    /\ \E found \in ProjectFiles :
          parse' = [pc |-> "project", parser_class |-> "ALCBFHTMLParser",
                    source_file |-> None, document |-> <<>>,
                    parser |-> ALCBFHTMLParser, read |-> 0,
                    html_files |-> found, i |-> 1,
                    file_results |-> None, all_results |-> ParseResults,
                    analysis |-> None]
    /\ UNCHANGED <<fs, call, docs, tf, tv, server>>

\* HTMLLinkExtractor.parse_file opens the next file: it cannot be read and
\* the results of the error are added, or the parser is made and fed
ParseFile ==
    /\ parse.pc = "project"
    /\ parse.i <= Len(parse.html_files)
    /\ \/ \E results \in {ErrorResults(parse.html_files[parse.i],
                                        "Permission denied")} :
             parse' = [parse EXCEPT
                          !.source_file = parse.html_files[parse.i],
                          !.file_results = results,
                          !.all_results = Merge(@, results),
                          !.i = @ + 1]
       \/ parse' = [parse EXCEPT
                       !.pc = "feeding",
                       !.source_file = parse.html_files[parse.i],
                       !.document = <<>>,
                       !.parser = ALCBFHTMLParser]
    /\ UNCHANGED <<fs, call, docs, tf, tv, server>>

\* the file has been read to its end: parse_file categorizes the links of
\* the parser, parse_project adds the results
CategorizeAll ==
    /\ parse.pc = "feeding"
    /\ parse.parser_class = "ALCBFHTMLParser"
    /\ \E results \in {parse_file(parse.source_file, parse.parser)} :
          parse' = [parse EXCEPT
                       !.pc = "project",
                       !.read = @ + Len(parse.document),
                       !.file_results = results,
                       !.all_results = Merge(@, results),
                       !.i = @ + 1]
    /\ UNCHANGED <<fs, call, docs, tf, tv, server>>

\* HTMLLinkExtractor.get_link_analysis of the results of the project
GetLinkAnalysis ==
    /\ parse.pc = "project"
    /\ parse.i > Len(parse.html_files)
    /\ parse' = [parse EXCEPT
                    !.pc = "done",
                    !.analysis = get_link_analysis(parse.all_results)]
    /\ UNCHANGED <<fs, call, docs, tf, tv, server>>

ParseNext ==
    \/ NewLinkExtractorParser
    \/ ParseProject
    \/ ParseFile
    \/ ParseStartTag
    \/ ParseEndTag
    \/ HandleData
    \/ ParseComment
    \/ EndOfFeed
    \/ CategorizeAll
    \/ GetLinkAnalysis

ParseSpec == ParseInit /\ [][ParseNext]_vars

(***************************************************************************)
(* The srcset attribute.                                                   *)
(***************************************************************************)

\* a start tag has just been read by LinkExtractorParser
ExtractorReadStartTag ==
    /\ parse.pc = "feeding"
    /\ parse.parser_class = "LinkExtractorParser"
    /\ parse'.pc = "feeding"
    /\ Len(parse'.document) = Len(parse.document) + 1
    /\ parse'.document[Len(parse'.document)].kind = "starttag"

\* the URLs of the occurrences that a sequence of LinkInfo holds from
\* position k on
UrlsFrom(links, k) == [i \in 1..(Len(links) - k + 1) |-> links[k + i - 1].url]

\* how often u is in the sequence s
Occurrences(s, u) == Cardinality({i \in 1..Len(s) : s[i] = u})

\* the candidate URLs of a srcset value: of every comma-separated candidate
\* that is not empty, the first whitespace-separated part
SrcsetCandidates(value) ==
    LET items == Split(value, ",")
        RECURSIVE Of(_)
        Of(k) == IF k > Len(items) THEN <<>>
                 ELSE IF Strip(items[k]) = "" THEN Of(k + 1)
                 ELSE <<FirstPart(items[k])>> \o Of(k + 1)
    IN  Of(1)

\* the values of the attributes other than srcset that the parser inspects
\* on the element
OtherLinkValues(token) ==
    LET names == link_attributes[token.tag]
        RECURSIVE Of(_)
        Of(k) == IF k > Len(names) THEN <<>>
                 ELSE IF /\ names[k] # "srcset"
                         /\ HasAttr(token.attrs, names[k])
                         /\ AttrGet(token.attrs, names[k]) \notin {None, ""}
                 THEN <<Strip(AttrGet(token.attrs, names[k]))>> \o Of(k + 1)
                 ELSE Of(k + 1)
    IN  Of(1)

\* the element of the start tag has a srcset value
HasSrcset(token) ==
    /\ HasAttr(token.attrs, "srcset")
    /\ AttrGet(token.attrs, "srcset") \notin {None, ""}

\* what C23 says of the start tag just read: the occurrences emitted for it
\* are one per srcset candidate, besides those of its other link attributes
SrcsetEmitted(token) ==
    LET new == UrlsFrom(parse'.parser.links, Len(parse.parser.links) + 1)
        candidates == SrcsetCandidates(AttrGet(token.attrs, "srcset"))
        others == OtherLinkValues(token)
    IN  /\ Len(new) = Len(candidates) + Len(others)
        /\ \A k \in 1..Len(candidates) :
              Occurrences(new, candidates[k]) =
                  Occurrences(candidates, candidates[k])
                  + Occurrences(others, candidates[k])

\* C23: for every srcset value on an element that LinkExtractorParser
\* inspects, the parser emits exactly one occurrence per comma-separated
\* candidate that is not empty, with the candidate's first
\* whitespace-separated part as URL.
C23_SrcsetCandidates ==
    [][(/\ ExtractorReadStartTag
        /\ parse'.document[Len(parse'.document)].tag \in DOMAIN link_attributes
        /\ HasSrcset(parse'.document[Len(parse'.document)])) =>
            SrcsetEmitted(parse'.document[Len(parse'.document)])]_vars

\* C23 for the source elements
C23_SrcsetOfSourceElements ==
    [][(/\ ExtractorReadStartTag
        /\ parse'.document[Len(parse'.document)].tag = "source"
        /\ HasSrcset(parse'.document[Len(parse'.document)])) =>
            SrcsetEmitted(parse'.document[Len(parse'.document)])]_vars

(***************************************************************************)
(* Line numbers.                                                           *)
(***************************************************************************)

\* the line numbers of the occurrences just emitted are all n
EmittedOnLine(n) ==
    \A i \in (Len(parse.parser.links) + 1)..Len(parse'.parser.links) :
        parse'.parser.links[i].line_number = n

\* C24: every occurrence that LinkExtractorParser emits has a line number
\* of at least 1 that is 1 plus the number of newline characters before its
\* tag in the document, whether these are in text, inside tags, in
\* comments or in declarations.
C24_AccurateLineNumber ==
    [][ExtractorReadStartTag =>
          /\ EmittedOnLine(1 + Newlines(parse.document))
          /\ \A i \in 1..Len(parse'.parser.links) :
                parse'.parser.links[i].line_number >= 1]_vars

\* C24 for the documents all of whose newline characters so far are in text
C24_LineNumberCountsText ==
    [][(/\ ExtractorReadStartTag
        /\ \A k \in 1..Len(parse.document) :
              parse.document[k].lines > 0 => parse.document[k].kind = "data") =>
          /\ EmittedOnLine(1 + Newlines(parse.document))
          /\ \A i \in 1..Len(parse'.parser.links) :
                parse'.parser.links[i].line_number >= 1]_vars

(***************************************************************************)
(* Occurrences in document order.                                          *)
(***************************************************************************)

\* the values of hrefs that are links to check, in the order written
RECURSIVE LinksToCheck(_)
LinksToCheck(hrefs) ==
    IF hrefs = <<>> THEN <<>>
    ELSE IF Placeholder(Head(hrefs)) THEN LinksToCheck(Tail(hrefs))
    ELSE <<Head(hrefs)>> \o LinksToCheck(Tail(hrefs))

\* LinkExtractorParser emits the occurrence of <a href="url">
ParserEmitsInOrder ==
    (/\ call.op = "handle_starttag"
     /\ ~Placeholder(Strip(call.url))
     /\ ~_is_template_variable(Strip(call.url))
     /\ _classify_link(Strip(call.url)) # ValueError) =>
        /\ Len(call.out.links) = 1
        /\ call.out.links[1].url = Strip(call.url)

\* C25: the extractor returns one occurrence for every link-bearing
\* attribute, in document order: of the elements <a href="url"> and
\* <a href="other"> both occurrences, the one of url first, also when url
\* and other are the same; LinkExtractorParser and the
\* extract_links_from_html of both LinkValidator modules do.
C25_EveryOccurrenceInOrder ==
    /\ ParserEmitsInOrder
    /\ call.op = "extract_links_from_html" =>
          LinksToCheck(call.out) = LinksToCheck(<<call.url, call.other>>)

\* C25 for LinkExtractorParser, and for the extract_links_from_html of the
\* tools validator on documents that name no URL twice
C25_InOrderWithoutDuplicates ==
    /\ ParserEmitsInOrder
    /\ (/\ call.op = "extract_links_from_html"
        /\ call.validator = "tools/link-validation/link_validator"
        /\ call.url # call.other) =>
          LinksToCheck(call.out) = LinksToCheck(<<call.url, call.other>>)

(***************************************************************************)
(* The development server (server.py): RateLimiter and the rate limiting   *)
(* of FestivalHTTPRequestHandler.do_GET.  The server handles one request   *)
(* at a time (socketserver.TCPServer).                                     *)
(***************************************************************************)

\* RateLimiter.limits
limits ==
    [api |-> [requests |-> 60, window |-> 300],
     static |-> [requests |-> 200, window |-> 300]]

\* self.limits.get(endpoint_type, self.limits['api'])
LimitConfig(endpoint_type) ==
    IF endpoint_type \in DOMAIN limits THEN limits[endpoint_type]
    ELSE limits["api"]

\* the requests of a record made after window_start
Since(record, window_start) ==
    SelectSeq(record, LAMBDA req_time : req_time > window_start)

\* is_allowed with the limit tested by > : one request more is let through
is_allowed_one_more(requests, client_ip, endpoint_type, now) ==
    LET limit_config == LimitConfig(endpoint_type)
        cleaned == Since(requests[client_ip], now - limit_config.window)
    IN  IF Len(cleaned) > limit_config.requests
        THEN [allowed |-> FALSE,
              requests |-> [requests EXCEPT ![client_ip] = cleaned]]
        ELSE [allowed |-> TRUE,
              requests |-> [requests EXCEPT ![client_ip] = Append(cleaned, now)]]

\* RateLimiter.is_allowed(client_ip, endpoint_type) when time.time() reads
\* now: the answer and self.requests afterwards
is_allowed(requests, client_ip, endpoint_type, now) ==
    LET limit_config == LimitConfig(endpoint_type)
        cleaned == Since(requests[client_ip], now - limit_config.window)
    IN  IF Len(cleaned) >= limit_config.requests
        THEN [allowed |-> FALSE,
              requests |-> [requests EXCEPT ![client_ip] = cleaned]]
        ELSE [allowed |-> TRUE,
              requests |-> [requests EXCEPT ![client_ip] = Append(cleaned, now)]]

\* the clients of the server
Clients == {"127.0.0.1"}

\* the paths requested: an API endpoint and a static file
Paths == {"/api/gallery", "/css/base.css"}

\* the seconds between two readings of the clock, and the last reading
Ticks == {150, 300}
MaxClock == 300

\* do_GET: requests under /api/ are counted as 'api', all others as 'static'
EndpointType(path) == IF StartsWith(path, "/api/") THEN "api" ELSE "static"

\* the longest window of the limits
Window == 300

\* no request has been handled since the clock was read
NoRequest ==
    [client_ip |-> None, path |-> None, endpoint_type |-> None,
     allowed |-> FALSE, status |-> 0]

\* granted is the history of the requests let through in the last Window
\* seconds, each with the endpoint type it was counted under.
ServerInit ==
    /\ fs = {}
    /\ call = NoCall
    /\ docs = <<>>
    /\ tf = TfIdle
    /\ tv = TvIdle
    /\ parse = ParseIdle
    /\ server = ServerIdle

\* rate_limiter = RateLimiter(); httpd.serve_forever()
StartServer ==
    /\ server.pc = "stopped"
    /\ server' = [pc |-> "serving", now |-> 0,
                  requests |-> [c \in Clients |-> <<>>],
                  granted |-> [c \in Clients |-> <<>>],
                  last |-> NoRequest]
    /\ UNCHANGED <<fs, call, docs, tf, tv, parse>>

\* time passes
Tick ==
    /\ server.pc = "serving"
    /\ \E dt \in Ticks :
          /\ server.now + dt <= MaxClock
          /\ server' = [server EXCEPT
                !.now = @ + dt,
                !.granted = [c \in Clients |->
                    SelectSeq(server.granted[c],
                        LAMBDA g : g.time > server.now + dt - Window)],
                !.last = NoRequest]
    /\ UNCHANGED <<fs, call, docs, tf, tv, parse>>

\* FestivalHTTPRequestHandler.do_GET up to the rate limit: the request is
\* refused with 429 or goes on to be served.  The requests that arrive
\* with one reading of the clock are of one endpoint type.
DoGET ==
    /\ server.pc = "serving"
    /\ \E client_ip \in Clients, path \in Paths :
       \E r \in {is_allowed(server.requests, client_ip, EndpointType(path),
                            server.now)} :
          /\ \A i \in 1..Len(server.granted[client_ip]) :
                server.granted[client_ip][i].time = server.now =>
                    server.granted[client_ip][i].endpoint_type =
                        EndpointType(path)
          /\ server' = [server EXCEPT
                !.requests = r.requests,
                !.granted[client_ip] =
                    IF r.allowed
                    THEN Append(@, [time |-> server.now,
                                    endpoint_type |-> EndpointType(path)])
                    ELSE @,
                !.last = [client_ip |-> client_ip, path |-> path,
                          endpoint_type |-> EndpointType(path),
                          allowed |-> r.allowed,
                          status |-> IF r.allowed THEN 200 ELSE 429]]
    /\ UNCHANGED <<fs, call, docs, tf, tv, parse>>

ServerNext ==
    \/ StartServer
    \/ Tick
    \/ DoGET

ServerSpec == ServerInit /\ [][ServerNext]_vars

\* how many requests of the endpoint type the history of the client holds
Granted(client_ip, endpoint_type) ==
    Len(SelectSeq(server.granted[client_ip],
                  LAMBDA g : g.endpoint_type = endpoint_type))

\* the timestamps of the history
RECURSIVE Times(_)
Times(granted) ==
    IF granted = <<>> THEN <<>>
    ELSE <<Head(granted).time>> \o Times(Tail(granted))

\* C26: in every window of 300 seconds (the clock readings after w up to
\* w + 300) at most 60 'api' calls and at most 200 'static' calls of a
\* client have returned True, and the client's record holds the timestamps
\* of the calls that returned True and no other: a call that returned
\* False has added none.
C26_RateLimits ==
    server.pc = "serving" =>
        \A client_ip \in Clients :
            /\ Granted(client_ip, "api") <= limits["api"].requests
            /\ Granted(client_ip, "static") <= limits["static"].requests
            /\ Since(server.requests[client_ip], server.now - Window) =
                   Times(server.granted[client_ip])

\* An 'api' call has returned False with 60 'api' calls let through in the
\* window, and a 'static' call with 200 requests let through.
C26_Witness ==
    /\ server.pc = "serving"
    /\ server.last # NoRequest
    /\ ~server.last.allowed
    /\ server.last.endpoint_type = "api"
    /\ Granted(server.last.client_ip, "api") = limits["api"].requests

\* C27: a client that has been let through fewer than 60 'api' requests in
\* the last 300 seconds is let through its next 'api' request, whatever
\* number of 'static' requests it made: an 'api' request is refused only
\* with 60 'api' requests in the window.
C27_ApiIndependentOfStatic ==
    (/\ server.pc = "serving"
     /\ server.last # NoRequest
     /\ server.last.endpoint_type = "api"
     /\ ~server.last.allowed) =>
        Granted(server.last.client_ip, "api") >= limits["api"].requests

\* C27 for the clients that made no 'static' request in the window
C27_ApiAllowanceWithoutStatic ==
    (/\ server.pc = "serving"
     /\ server.last # NoRequest
     /\ server.last.endpoint_type = "api"
     /\ ~server.last.allowed
     /\ Granted(server.last.client_ip, "static") = 0) =>
        Granted(server.last.client_ip, "api") >= limits["api"].requests

(***************************************************************************)
(* The context of the links of ALCBFHTMLParser.                            *)
(***************************************************************************)

\* a start tag has just been read by ALCBFHTMLParser
ParserReadStartTag ==
    /\ parse.pc = "feeding"
    /\ parse.parser_class = "ALCBFHTMLParser"
    /\ parse'.pc = "feeding"
    /\ Len(parse'.document) = Len(parse.document) + 1
    /\ parse'.document[Len(parse'.document)].kind = "starttag"

\* how many nav elements are open at the end of the document
NavDepth(document) ==
    Cardinality({k \in 1..Len(document) :
                    document[k].kind = "starttag" /\ document[k].tag = "nav"})
    - Cardinality({k \in 1..Len(document) :
                      document[k].kind = "endtag" /\ document[k].tag = "nav"})

\* every nav end tag of the document closes a nav element that is open
NavProperlyClosed(document) ==
    \A n \in 1..Len(document) : NavDepth(SubSeq(document, 1, n)) >= 0

\* the elements open at the end of the document, innermost last, when every
\* end tag closes the innermost open element; <<"?">> otherwise
RECURSIVE OpenElements(_, _)
OpenElements(document, open) ==
    IF document = <<>> \/ open = <<"?">> THEN open
    ELSE IF Head(document).kind = "starttag"
    THEN OpenElements(Tail(document), Append(open, Head(document).tag))
    ELSE IF Head(document).kind = "endtag"
    THEN IF open # <<>> /\ open[Len(open)] = Head(document).tag
         THEN OpenElements(Tail(document), SubSeq(open, 1, Len(open) - 1))
         ELSE <<"?">>
    ELSE OpenElements(Tail(document), open)

\* the links just emitted carry nav context only inside an open nav element
NavContextOnlyInsideNav ==
    \A i \in (Len(parse.parser.links) + 1)..Len(parse'.parser.links) :
        Contains(parse'.parser.links[i].context, "nav") =>
            NavDepth(parse.document) > 0

\* C28: in a document whose nav elements are properly closed, the context
\* of a link of ALCBFHTMLParser contains "nav" or "navigation" only if the
\* tag of the link is inside a nav element that is open at that point;
\* after the end tag of a nav element no later link has nav context, also
\* when the nav element held elements without end tag such as img.
C28_NavContext ==
    [][(ParserReadStartTag /\ NavProperlyClosed(parse.document)) =>
          NavContextOnlyInsideNav]_vars

\* C28 for the documents in which every end tag closes the innermost open
\* element: no element without end tag is in them
C28_NavContextWhenEveryEndTagMatches ==
    [][(ParserReadStartTag /\ OpenElements(parse.document, <<>>) # <<"?">>) =>
          NavContextOnlyInsideNav]_vars

(***************************************************************************)
(* The category lists of ParseResults.                                     *)
(***************************************************************************)

\* how many entries the seven category lists hold together
InCategoryLists(results) ==
    Len(results.navigation_links) + Len(results.content_links)
    + Len(results.asset_links) + Len(results.external_links)
    + Len(results.anchor_links) + Len(results.email_links)
    + Len(results.social_links)

\* every entry of links is in exactly one category list
EachInOneList(results) ==
    \A i \in 1..Len(results.links) :
        Occurrences(results.navigation_links, results.links[i])
        + Occurrences(results.content_links, results.links[i])
        + Occurrences(results.asset_links, results.links[i])
        + Occurrences(results.external_links, results.links[i])
        + Occurrences(results.anchor_links, results.links[i])
        + Occurrences(results.email_links, results.links[i])
        + Occurrences(results.social_links, results.links[i])
        = Occurrences(results.links, results.links[i])

\* the sum of the seven category counts of an analysis
CategoryCounts(analysis) ==
    analysis.categories.navigation + analysis.categories.content
    + analysis.categories.asset + analysis.categories.external
    + analysis.categories.anchor + analysis.categories.email
    + analysis.categories.social

\* C29: in the ParseResults of parse_file and of parse_project every entry
\* of links is in exactly one of the seven category lists, and the
\* total_links of get_link_analysis is the sum of its seven category
\* counts, also when a file could not be read.
C29_CategoriesPartitionLinks ==
    /\ (parse.pc \in {"project", "feeding", "done"}
        /\ parse.parser_class = "ALCBFHTMLParser") =>
          /\ EachInOneList(parse.all_results)
          /\ parse.i > 1 => EachInOneList(parse.file_results)
    /\ (parse.pc = "done" /\ parse.parser_class = "ALCBFHTMLParser") =>
          parse.analysis.total_links = CategoryCounts(parse.analysis)

\* C29 for the projects all of whose files were read and categorized
C29_PartitionWhenNoError ==
    (/\ parse.pc \in {"project", "feeding", "done"}
     /\ parse.parser_class = "ALCBFHTMLParser"
     /\ \A i \in 1..Len(parse.all_results.links) :
           parse.all_results.links[i].is_valid) =>
        /\ EachInOneList(parse.all_results)
        /\ Len(parse.all_results.links) = InCategoryLists(parse.all_results)
        /\ parse.pc = "done" =>
              parse.analysis.total_links = CategoryCounts(parse.analysis)

(***************************************************************************)
(* Protocol-relative links under the default configuration.                *)
(***************************************************************************)

\* C30: under the default configuration the tools validate_link reports
\* every link that starts with "//" either valid as "skipped" or invalid;
\* it returns no valid result of link_type "protocol_relative".
C30_ProtocolRelativeSkippedOrInvalid ==
    (call.op = "tools_validate" /\ StartsWith(call.url, "//")) =>
        /\ ~call.out.raised
        /\ \/ call.out.is_valid /\ call.out.link_type = "skipped"
           \/ ~call.out.is_valid
        /\ ~(call.out.is_valid /\ call.out.link_type = "protocol_relative")

\* C30 for the results that validate_link returns: none is a valid result
\* of link_type "protocol_relative", because the skip pattern matches every
\* link whose host _validate_protocol_relative_link accepts
C30_NoValidProtocolRelative ==
    /\ (/\ call.op = "tools_validate"
        /\ StartsWith(call.url, "//")
        /\ ~call.out.raised) =>
          /\ \/ call.out.is_valid /\ call.out.link_type = "skipped"
             \/ ~call.out.is_valid
          /\ ~(call.out.is_valid /\ call.out.link_type = "protocol_relative")
    /\ (call.op = "tools_validate" /\ StartsWith(call.url, "//")) =>
          (_validate_protocol_relative_link(call.url).is_valid =>
              _should_skip_link(DefaultConfig, call.url, call.rel))

=============================================================================
